---- MODULE Spec2Model ----
(***************************************************************************)
(* State-machine model of the delayed-rejection adaptive Metropolis-       *)
(* Hastings sequence generator (MetropolisHastingsSG::generateFullChain,   *)
(* alpha(x,y), alpha(vec), acceptAlpha, updateAdaptedCovMatrix).           *)
(*                                                                         *)
(* The model follows the process that runs the sampler loop (the branch    *)
(* taken by sub-rank 0 / one-process sub-environments, line 933); the      *)
(* helper branch of lines 913-932, in which other ranks only serve the     *)
(* target evaluation, is outside the model.                                *)
(*                                                                         *)
(* Doubles are modelled by extended rationals [k, n, d]: k = "fin" with    *)
(* value n/d (d > 0, reduced), or "nan", "pinf", "ninf".  Log-densities    *)
(* are measured in units in which std::exp of an integer is an exact       *)
(* rational (Exp(v) = 2^v): Exp is monotone, Exp(0) = 1 and                *)
(* Exp(a+b) = Exp(a)*Exp(b), which is all the code relies on.              *)
(***************************************************************************)
EXTENDS Integers, Sequences, FiniteSets, TLC

(***************************************************************************)
(* Bounds of the model.                                                    *)
(***************************************************************************)
MaxChainSize == 3
MaxStages == 2
MaxInterval == 2
MaxDifferences == 2
\* the history variable outOfSupportDraws stops counting at MaxDraws
MaxDraws == 3

(***************************************************************************)
(* Extended rationals (IEEE-754 doubles, as far as the code observes them) *)
(***************************************************************************)
RECURSIVE Gcd(_, _)
Gcd(a, b) == IF b = 0 THEN a ELSE Gcd(b, a % b)

Abs(a) == IF a < 0 THEN -a ELSE a

RECURSIVE Pow2(_)
Pow2(e) == IF e <= 0 THEN 1 ELSE 2 * Pow2(e - 1)

Fin(n, d) ==
  LET g == Gcd(Abs(n), d)
  IN  IF n = 0 THEN [k |-> "fin", n |-> 0, d |-> 1]
      ELSE [k |-> "fin", n |-> n \div g, d |-> d \div g]

NaN == [k |-> "nan", n |-> 0, d |-> 1]
PInf == [k |-> "pinf", n |-> 0, d |-> 1]
NInf == [k |-> "ninf", n |-> 0, d |-> 1]

Zero == Fin(0, 1)
One == Fin(1, 1)

IsNaN(a) == a.k = "nan"
IsFinite(a) == a.k = "fin"

\* TLC evaluates an operator's argument at each use of the parameter; the
\* operators on doubles take the value of each argument once (x, y are the
\* arguments, a, b their values)

\* a < b on doubles: false whenever an operand is NaN
Less(x, y) ==
  \E a \in {x}, b \in {y} :
    CASE IsNaN(a) \/ IsNaN(b) -> FALSE
      [] a.k = "pinf" -> FALSE
      [] b.k = "ninf" -> FALSE
      [] a.k = "ninf" -> TRUE
      [] b.k = "pinf" -> TRUE
      [] OTHER -> a.n * b.d < b.n * a.d

\* a <= b and a >= b on doubles: false whenever an operand is NaN
LessEq(x, y) ==
  \E a \in {x}, b \in {y} : ~IsNaN(a) /\ ~IsNaN(b) /\ ~Less(b, a)
GreaterEq(x, y) == LessEq(y, x)

Sign(a) ==
  CASE a.k = "pinf" -> 1
    [] a.k = "ninf" -> -1
    [] a.k = "nan" -> 0
    [] OTHER -> IF a.n > 0 THEN 1 ELSE IF a.n < 0 THEN -1 ELSE 0

Neg(x) ==
  CHOOSE r \in {CASE a.k = "pinf" -> NInf
                  [] a.k = "ninf" -> PInf
                  [] a.k = "nan" -> NaN
                  [] OTHER -> Fin(-a.n, a.d) : a \in {x}} : TRUE

Add(x, y) ==
  CHOOSE r \in {CASE IsNaN(a) \/ IsNaN(b) -> NaN
                  [] a.k = "fin" /\ b.k = "fin" ->
                       Fin(a.n * b.d + b.n * a.d, a.d * b.d)
                  [] a.k = "fin" -> b
                  [] b.k = "fin" -> a
                  [] a.k = b.k -> a
                  [] OTHER -> NaN : a \in {x}, b \in {y}} : TRUE

Sub(x, y) == Add(x, Neg(y))

Mul(x, y) ==
  CHOOSE r \in {CASE IsNaN(a) \/ IsNaN(b) -> NaN
                  [] a.k = "fin" /\ b.k = "fin" -> Fin(a.n * b.n, a.d * b.d)
                  [] Sign(a) * Sign(b) = 0 -> NaN
                  [] Sign(a) * Sign(b) > 0 -> PInf
                  [] OTHER -> NInf : a \in {x}, b \in {y}} : TRUE

\* IEEE division: x/0 is an infinity for x # 0 and NaN for x = 0
Div(x, y) ==
  CHOOSE r \in {CASE IsNaN(a) \/ IsNaN(b) -> NaN
                  [] a.k = "fin" /\ b.k = "fin" ->
                       IF b.n = 0
                       THEN (IF a.n = 0 THEN NaN
                             ELSE IF a.n > 0 THEN PInf ELSE NInf)
                       ELSE IF b.n > 0 THEN Fin(a.n * b.d, a.d * b.n)
                       ELSE Fin(-(a.n * b.d), a.d * (-b.n))
                  [] a.k = "fin" -> Zero
                  [] b.k = "fin" ->
                       IF Sign(a) * (IF b.n < 0 THEN -1 ELSE 1) > 0
                       THEN PInf ELSE NInf
                  [] OTHER -> NaN : a \in {x}, b \in {y}} : TRUE

\* The range of a double, for the powers of two that stand for std::exp:
\* 2^v is rounded to 0 for v <= -1075 and to infinity for v >= 1024
ExpUnderflow == -1075
ExpOverflow == 1024

\* std::exp, to the resolution the model's doubles have (the integer powers
\* of two, with the range of a double): as std::exp rounds its value to the
\* nearest double, a result between two powers is rounded to the power
\* nearer 1, and a result outside the range to 0 or to infinity
Exp(x) ==
  CHOOSE r \in {CASE a.k = "nan" -> NaN
                  [] a.k = "pinf" -> PInf
                  [] a.k = "ninf" -> Zero
                  [] OTHER ->
                       IF a.n >= 0
                       THEN IF a.n \div a.d >= ExpOverflow THEN PInf
                            ELSE Fin(Pow2(a.n \div a.d), 1)
                       ELSE IF (-a.n) \div a.d >= -ExpUnderflow THEN Zero
                            ELSE Fin(1, Pow2((-a.n) \div a.d)) : a \in {x}} : TRUE

\* std::min(a, b) is (b < a) ? b : a
StdMin(x, y) ==
  CHOOSE r \in {IF Less(b, a) THEN b ELSE a : a \in {x}, b \in {y}} : TRUE

(***************************************************************************)
(* The sampler's collaborators: parameter domain, target evaluator, RNG    *)
(* and transition kernel (TK).  Positions are named points of the          *)
(* parameter space.                                                        *)
(***************************************************************************)
Points == {"out", "far", "a", "b", "nan", "inf", "sing"}

\* m_targetPdf.domainSet().contains(v)
InDomain(p) == p \notin {"out", "far"}

\* value returned by m_targetPdfSynchronizer->callFunction(&v,...)
RawTarget(p) ==
  CASE p = "a" -> Fin(0, 1)
    [] p = "b" -> Fin(2, 1)
    [] p = "nan" -> NaN
    [] p = "inf" -> PInf
    [] OTHER -> Fin(0, 1)

\* value stored by callFunction through its logLikelihood pointer
RawLogLikelihood(p) ==
  CASE p = "a" -> Fin(-3, 1)
    [] p = "b" -> Fin(-4, 1)
    [] p = "nan" -> NaN
    [] p = "inf" -> PInf
    [] OTHER -> Fin(-5, 1)

\* QUESO_EXPECTS_LN_LIKELIHOOD_INSTEAD_OF_MINUS_2_LN: v or -0.5 * v
FromRaw(expectsLn, v) == IF expectsLn THEN v ELSE Mul(Fin(-1, 2), v)

\* m_env.rngObject()->uniformSample(), values of [0,1)
UniformSamples == {Fin(1, 8), Fin(7, 8)}

\* MarkovChainPositionData
PositionData(vec, out, ll, lt) ==
  [vec |-> vec, out |-> out, ll |-> ll, lt |-> lt]

NoData == PositionData("none", FALSE, Zero, Zero)

\* m_tk->symmetric(): the scaled-covariance TK is symmetric, the Hessian TK not
TKSymmetric(tk) == ~tk.hessian

\* m_tk->setPreComputingPosition(v, id): its validity result; the Hessian TK
\* fails where the local Hessian is singular
TKValidAt(hessian, p) == ~hessian \/ p # "sing"

\* m_tk->rv(...).pdf().lnValue(x) for the Gaussian of scale index s centred
\* at c: symmetric in (c, x) for the scaled-covariance TK, dependent on the
\* local Hessian at c for the Hessian TK
TKLnValue(tk, c, s, x) ==
  IF c = x THEN Fin(2 * s, 1)
  ELSE IF tk.hessian /\ c \in {"b", "sing"} THEN Fin(2 * s + 4, 1)
  ELSE Fin(2 * s + 2, 1)

\* the test of the log-target with the isnan() test left out (the variant
\* C10 is tested against)
NonFiniteLogTargetIgnoringNaN(lt) == lt = NInf \/ lt = PInf

\* the tests of alpha() on a log-target: -INFINITY, INFINITY, isnan()
NonFiniteLogTarget(lt) == lt = NInf \/ lt = PInf \/ IsNaN(lt)

(***************************************************************************)
(* alpha(x, y, xStageId, yStageId, alphaQuotientPtr)                       *)
(***************************************************************************)
\* alpha(x,y) with the log-target tests made on x alone (the variant C9 is
\* tested against)
AlphaQuotientCheckingCurrentOnly(tk, x, y, xStageId, yStageId) ==
  IF x.out = FALSE /\ y.out = FALSE
  THEN IF NonFiniteLogTarget(x.lt) THEN Zero
       ELSE IF TKSymmetric(tk) THEN Exp(Sub(y.lt, x.lt))
       ELSE LET qyx == FromRaw(tk.ln, TKLnValue(tk, tk.pre[yStageId], yStageId, x.vec))
                qxy == FromRaw(tk.ln, TKLnValue(tk, tk.pre[xStageId], xStageId, y.vec))
            IN  Exp(Sub(Sub(Add(y.lt, qyx), x.lt), qxy))
  ELSE Zero

\* alpha(x,y) computing the quotient with the proposal densities whatever
\* m_tk->symmetric() says (the variant C15 is tested against)
AlphaQuotientUsingDensities(tk, x, y, xStageId, yStageId) ==
  IF x.out = FALSE /\ y.out = FALSE
  THEN IF NonFiniteLogTarget(x.lt) THEN Zero
       ELSE IF NonFiniteLogTarget(y.lt) THEN Zero
       ELSE LET qyx == FromRaw(tk.ln, TKLnValue(tk, tk.pre[yStageId], yStageId, x.vec))
                qxy == FromRaw(tk.ln, TKLnValue(tk, tk.pre[xStageId], xStageId, y.vec))
            IN  Exp(Sub(Sub(Add(y.lt, qyx), x.lt), qxy))
  ELSE Zero

\* alpha(x,y) with the log-target tests made on y alone (the variant C35 is
\* tested against)
AlphaQuotientCheckingCandidateOnly(tk, x, y, xStageId, yStageId) ==
  IF x.out = FALSE /\ y.out = FALSE
  THEN IF NonFiniteLogTarget(y.lt) THEN Zero
       ELSE IF TKSymmetric(tk) THEN Exp(Sub(y.lt, x.lt))
       ELSE LET qyx == FromRaw(tk.ln, TKLnValue(tk, tk.pre[yStageId], yStageId, x.vec))
                qxy == FromRaw(tk.ln, TKLnValue(tk, tk.pre[xStageId], xStageId, y.vec))
            IN  Exp(Sub(Sub(Add(y.lt, qyx), x.lt), qxy))
  ELSE Zero

\* the unclamped quotient of alpha(x,y), *alphaQuotientPtr
AlphaQuotient(tk, x, y, xStageId, yStageId) ==
  IF x.out = FALSE /\ y.out = FALSE
  THEN IF NonFiniteLogTarget(x.lt) THEN Zero
       ELSE IF NonFiniteLogTarget(y.lt) THEN Zero
       ELSE IF TKSymmetric(tk) THEN Exp(Sub(y.lt, x.lt))
       ELSE LET qyx == FromRaw(tk.ln, TKLnValue(tk, tk.pre[yStageId], yStageId, x.vec))
                qxy == FromRaw(tk.ln, TKLnValue(tk, tk.pre[xStageId], xStageId, y.vec))
            IN  Exp(Sub(Sub(Add(y.lt, qyx), x.lt), qxy))
  ELSE Zero

AlphaXY(tk, x, y, xStageId, yStageId) ==
  StdMin(One, AlphaQuotient(tk, x, y, xStageId, yStageId))

(***************************************************************************)
(* alpha(inputPositionsData, inputTKStageIds)                              *)
(***************************************************************************)
Reverse(s) == [i \in 1..Len(s) |-> s[Len(s) + 1 - i]]

\* m_tk->rv(stageIds).pdf().lnValue(x): centred at the pre-computing position
\* of stageIds[0], with the scale of index stageIds.size()-1
RvLnValue(tk, stageIds, x) ==
  FromRaw(tk.ln, TKLnValue(tk, tk.pre[stageIds[1]], Len(stageIds) - 1, x))

RECURSIVE AlphaVec(_, _, _)
RECURSIVE AlphaCumulate(_, _, _, _, _)

\* The cumulation loop, iteration i of inputSize-2, on the accumulator
\* [logNum, logDen, alphasNum, alphasDen] (cumulated: the argument,
\* acc: its value)
AlphaCumulate(tk, pos, ids, i, cumulated) ==
  LET inputSize == Len(pos)
      bpos == Reverse(pos)
      bids == Reverse(ids)
      m == inputSize - 1 - i
      positionsData == SubSeq(pos, 1, m)
      backwardPositionsData == SubSeq(bpos, 1, m)
      lastTKPosition == tk.pre[ids[m]]
      lastBackwardTKPosition == tk.pre[bids[m]]
      tkStageIds == SubSeq(ids, 1, m)
      backwardTKStageIds == SubSeq(bids, 1, m)
      tkStageIdsLess1 == SubSeq(ids, 1, m - 1)
      backwardTKStageIdsLess1 == SubSeq(bids, 1, m - 1)
      numContrib == RvLnValue(tk, backwardTKStageIdsLess1, lastBackwardTKPosition)
      denContrib == RvLnValue(tk, tkStageIdsLess1, lastTKPosition)
  IN  IF i >= inputSize - 2 THEN cumulated
      ELSE CHOOSE r \in
             {AlphaCumulate(tk, pos, ids, i + 1,
                [logNum |-> Add(acc.logNum, numContrib),
                 logDen |-> Add(acc.logDen, denContrib),
                 alphasNum |-> Mul(acc.alphasNum,
                    Sub(One, AlphaVec(tk, backwardPositionsData, backwardTKStageIds))),
                 alphasDen |-> Mul(acc.alphasDen,
                    Sub(One, AlphaVec(tk, positionsData, tkStageIds)))]) :
              acc \in {cumulated}} : TRUE

\* the endpoint log-target contributions, added after the loop
AddEndpoints(cumulated, numContrib, denContrib) ==
  CHOOSE r \in {[logNum |-> Add(acc.logNum, numContrib),
                 logDen |-> Add(acc.logDen, denContrib),
                 alphasNum |-> acc.alphasNum,
                 alphasDen |-> acc.alphasDen] : acc \in {cumulated}} : TRUE

\* The cumulative variables when the final quotient is formed
AlphaVecCumulated(tk, pos, ids) ==
  LET inputSize == Len(pos)
      bpos == Reverse(pos)
      bids == Reverse(ids)
      acc0 == [logNum |-> RvLnValue(tk, SubSeq(bids, 1, inputSize - 1), tk.pre[bids[inputSize]]),
               logDen |-> RvLnValue(tk, SubSeq(ids, 1, inputSize - 1), tk.pre[ids[inputSize]]),
               alphasNum |-> One,
               alphasDen |-> One]
  IN  AddEndpoints(AlphaCumulate(tk, pos, ids, 0, acc0), bpos[1].lt, pos[1].lt)

\* the result formed from the cumulative variables
AlphaQuotientOf(cumulated) ==
  CHOOSE r \in {StdMin(One, Mul(Div(c.alphasNum, c.alphasDen),
                                Exp(Sub(c.logNum, c.logDen)))) :
                c \in {cumulated}} : TRUE

\* alpha(vec) without its tests of the endpoints' log-targets (the variant
\* C31 is tested against)
AlphaVecIgnoringLogTargets(tk, pos, ids) ==
  LET inputSize == Len(pos)
  IN  IF pos[1].out THEN Zero
      ELSE IF pos[inputSize].out THEN Zero
      ELSE IF inputSize = 2
           THEN AlphaXY(tk, pos[1], pos[inputSize], ids[1], ids[inputSize])
      ELSE AlphaQuotientOf(AlphaVecCumulated(tk, pos, ids))

AlphaVec(tk, pos, ids) ==
  LET inputSize == Len(pos)
  IN  IF pos[1].out THEN Zero
      ELSE IF pos[inputSize].out THEN Zero
      ELSE IF NonFiniteLogTarget(pos[1].lt) THEN Zero
      ELSE IF NonFiniteLogTarget(pos[inputSize].lt) THEN Zero
      ELSE IF inputSize = 2
           THEN AlphaXY(tk, pos[1], pos[inputSize], ids[1], ids[inputSize])
      ELSE AlphaQuotientOf(AlphaVecCumulated(tk, pos, ids))

\* The invocations of alpha(vec) that form the final quotient, among the call
\* on (pos, ids) and the calls nested in its cumulation loop on the forward
\* and backward prefixes; a call of size 2 is handed to alpha(x,y) and a call
\* that returns 0 early forms no quotient
RECURSIVE AlphaInvocations(_, _, _)
AlphaInvocations(tk, pos, ids) ==
  LET inputSize == Len(pos)
  IN  IF \/ pos[1].out
         \/ pos[inputSize].out
         \/ NonFiniteLogTarget(pos[1].lt)
         \/ NonFiniteLogTarget(pos[inputSize].lt)
         \/ inputSize = 2
      THEN {}
      ELSE {[pos |-> pos, ids |-> ids, backward |-> FALSE]}
           \cup UNION {AlphaInvocations(tk, SubSeq(pos, 1, m), SubSeq(ids, 1, m)) :
                       m \in 2..(inputSize - 1)}
           \cup UNION {{[inv EXCEPT !.backward = TRUE] :
                        inv \in AlphaInvocations(tk, SubSeq(Reverse(pos), 1, m),
                                                 SubSeq(Reverse(ids), 1, m))} :
                       m \in 2..(inputSize - 1)}

\* whether alpha(vec) returns 0 right away
AlphaReturnsRightAway(pos) ==
  \/ pos[1].out
  \/ pos[Len(pos)].out
  \/ NonFiniteLogTarget(pos[1].lt)
  \/ NonFiniteLogTarget(pos[Len(pos)].lt)

\* Every call of alpha(vec) made for the call on (pos, ids): the call itself,
\* at the given depth and from a caller whose list had callerSize entries,
\* and, unless it returns right away or hands over to alpha(x,y), the calls
\* of its cumulation loop, one on a forward and one on a backward prefix per
\* pass, after the pop_back of the pass
RECURSIVE AlphaCalls(_, _, _, _)
AlphaCalls(pos, ids, depth, callerSize) ==
  LET inputSize == Len(pos)
      nested == {inputSize - 1 - i : i \in 0..(inputSize - 3)}
  IN  {[pos |-> pos, ids |-> ids, depth |-> depth, callerSize |-> callerSize]}
      \cup (IF AlphaReturnsRightAway(pos) \/ inputSize = 2 THEN {}
            ELSE UNION {AlphaCalls(SubSeq(pos, 1, m), SubSeq(ids, 1, m),
                                   depth + 1, inputSize)
                        \cup AlphaCalls(SubSeq(Reverse(pos), 1, m),
                                        SubSeq(Reverse(ids), 1, m),
                                        depth + 1, inputSize) : m \in nested})

(***************************************************************************)
(* acceptAlpha(alpha); u is the uniform sample the RNG returns if asked    *)
(***************************************************************************)
AcceptAlpha(alpha, u) ==
  IF LessEq(alpha, Zero) THEN FALSE
  ELSE IF GreaterEq(alpha, One) THEN TRUE
  ELSE IF GreaterEq(alpha, u) THEN TRUE
  ELSE FALSE

\* acceptAlpha drawing its uniform sample whatever alpha is (the variant C32
\* is tested against)
ConsumesUniformAtEveryCall(alpha) == TRUE

\* whether acceptAlpha(alpha) draws a uniform sample
ConsumesUniform(alpha) == ~LessEq(alpha, Zero) /\ ~GreaterEq(alpha, One)

(***************************************************************************)
(* Vectors and matrices of the parameter space (dimension 2)               *)
(***************************************************************************)
Dim == 1..2

\* coordinates of the named points
Coordinates(p) ==
  CASE p = "a" -> <<Fin(0, 1), Fin(0, 1)>>
    [] p = "b" -> <<Fin(1, 1), Fin(0, 1)>>
    [] p = "nan" -> <<Fin(0, 1), Fin(1, 1)>>
    [] p = "inf" -> <<Fin(1, 1), Fin(1, 1)>>
    [] p = "sing" -> <<Fin(2, 1), Fin(1, 1)>>
    [] p = "far" -> <<Fin(-2, 1), Fin(-2, 1)>>
    [] OTHER -> <<Fin(-1, 1), Fin(-1, 1)>>

ZeroVector == [a \in Dim |-> Zero]
ZeroMatrix == [a \in Dim |-> [b \in Dim |-> Zero]]
\* (x, y are the arguments, v, w, m, n their values)
VecAdd(x, y) ==
  CHOOSE r \in {[a \in Dim |-> Add(v[a], w[a])] : v \in {x}, w \in {y}} : TRUE
VecSub(x, y) ==
  CHOOSE r \in {[a \in Dim |-> Sub(v[a], w[a])] : v \in {x}, w \in {y}} : TRUE
VecScale(r, x) ==
  CHOOSE s \in {[a \in Dim |-> Mul(r, v[a])] : v \in {x}} : TRUE
\* matrixProduct(v, w): the outer product
MatrixProduct(x, y) ==
  CHOOSE r \in {[a \in Dim |-> [b \in Dim |-> Mul(v[a], w[b])]] :
                v \in {x}, w \in {y}} : TRUE
MatAdd(x, y) ==
  CHOOSE r \in {[a \in Dim |-> [b \in Dim |-> Add(m[a][b], n[a][b])]] :
                m \in {x}, n \in {y}} : TRUE
MatScale(r, x) ==
  CHOOSE s \in {[a \in Dim |-> [b \in Dim |-> Mul(r, m[a][b])]] : m \in {x}} : TRUE
\* m_vectorSpace.newDiagMatrix(v)
DiagMatrix(v) == [a \in Dim |-> [b \in Dim |-> IF a = b THEN v ELSE Zero]]

RECURSIVE VecSum(_)
VecSum(vs) ==
  IF vs = <<>> THEN ZeroVector ELSE VecAdd(vs[1], VecSum(Tail(vs)))

RECURSIVE MatSum(_)
MatSum(ms) ==
  IF ms = <<>> THEN ZeroMatrix ELSE MatAdd(ms[1], MatSum(Tail(ms)))

\* partialChain.subMeanPlain()
SubMeanPlain(vs) == VecScale(Fin(1, Len(vs)), VecSum(vs))

\* return codes of P_M::chol()
UQ_OK_RC == "UQ_OK_RC"
UQ_MATRIX_IS_NOT_POS_DEFINITE_RC == "UQ_MATRIX_IS_NOT_POS_DEFINITE_RC"

\* tmpChol.chol(): the factorisation exists iff the leading minors are positive
Chol(x) ==
  CHOOSE rc \in
    {IF /\ Less(Zero, m[1][1])
        /\ Less(Zero, Sub(Mul(m[1][1], m[2][2]), Mul(m[2][1], m[2][1])))
     THEN UQ_OK_RC
     ELSE UQ_MATRIX_IS_NOT_POS_DEFINITE_RC : m \in {x}} : TRUE

\* m_lastMean, m_lastAdaptedCovMatrix before allocation
NullVector == <<>>
NullMatrix == <<>>

\* m_initialProposalCovMatrix
InitialProposalCovMatrix == DiagMatrix(One)

(***************************************************************************)
(* The sampler: options, state and generateFullChain                       *)
(***************************************************************************)
VARIABLES
  opt,                          \* m_optionsObj->m_ov, m_initialPosition, the sequences asked for
  pc,                           \* place of control inside generateFullChain
  fatal,                        \* message of the UQ_FATAL_TEST_MACRO that fired, or ""
  positionId,                   \* loop variable of the chain loop
  stageId,
  workingChain,
  workingLogLikelihoodValues,
  workingLogTargetValues,
  rawChainInfo,                 \* m_rawChainInfo (counters)
  currentPositionData,
  currentCandidateData,
  tmpVecValues,
  outOfTargetSupport,
  validPreComputingPosition,
  accept,
  drPositionsData,
  tkStageIds,
  preComputingPositions,        \* the TK's table of pre-computing positions
  tkCovMatrix,                  \* the scaled-covariance TK's law covariance
  lastChainSize,                \* m_lastChainSize
  lastMean,                     \* m_lastMean
  lastAdaptedCovMatrix,         \* m_lastAdaptedCovMatrix
  outOfSupportDraws             \* history: realizations drawn out of support, up to MaxDraws

vars == <<opt, pc, fatal, positionId, stageId, workingChain,
          workingLogLikelihoodValues, workingLogTargetValues, rawChainInfo,
          currentPositionData, currentCandidateData, tmpVecValues,
          outOfTargetSupport, validPreComputingPosition, accept,
          drPositionsData, tkStageIds, preComputingPositions, tkCovMatrix,
          lastChainSize, lastMean, lastAdaptedCovMatrix, outOfSupportDraws>>

AllOptions ==
  [rawChainSize : 1..MaxChainSize,
   drMaxNumExtraStages : 0..MaxStages,
   drDuringAmNonAdaptiveInt : BOOLEAN,
   tkUseLocalHessian : BOOLEAN,
   amInitialNonAdaptInterval : 0..MaxInterval,
   amAdaptInterval : 0..MaxInterval,
   amEta : {Fin(3, 2)},
   amEpsilon : {Zero, Fin(1, 4)},
   putOutOfBoundsInChain : BOOLEAN,
   expectsLn : BOOLEAN,
   wantLogLikelihood : BOOLEAN,
   wantLogTarget : BOOLEAN,
   initialPosition : Points]

\* The runs explored: every option record that differs from the reference
\* configuration in at most MaxDifferences options
Reference ==
  [rawChainSize |-> MaxChainSize,
   drMaxNumExtraStages |-> 1,
   drDuringAmNonAdaptiveInt |-> FALSE,
   tkUseLocalHessian |-> FALSE,
   amInitialNonAdaptInterval |-> 1,
   amAdaptInterval |-> 1,
   amEta |-> Fin(3, 2),
   amEpsilon |-> Fin(1, 4),
   putOutOfBoundsInChain |-> TRUE,
   expectsLn |-> FALSE,
   wantLogLikelihood |-> TRUE,
   wantLogTarget |-> TRUE,
   initialPosition |-> "a"]

Differences(o) == Cardinality({f \in DOMAIN o : o[f] # Reference[f]})

Options == {o \in AllOptions : Differences(o) <= MaxDifferences}

\* MHRawChainInfoStruct::reset()
ResetInfo ==
  [numTargetCalls |-> 0, numDRs |-> 0, numOutOfTargetSupport |-> 0,
   numOutOfTargetSupportInDR |-> 0, numRejections |-> 0]

\* m_tk->clearPreComputingPositions()
ClearedPositions == [id \in 0..(MaxStages + 1) |-> "none"]

\* a sequence right after resizeSequence(n)
Unwritten == "unwritten"
ResizedChain(n) == [i \in 1..n |-> Unwritten]
ResizedScalars(n) == [i \in 1..n |-> Zero]

TK == [hessian |-> opt.tkUseLocalHessian, pre |-> preComputingPositions,
       ln |-> opt.expectsLn]

\* the position record of a drawn candidate: out of support it is not
\* evaluated, in support the target evaluator is called
Evaluate(v, out) ==
  IF out THEN PositionData(v, TRUE, NInf, NInf)
  ELSE PositionData(v, FALSE, RawLogLikelihood(v),
                    FromRaw(opt.expectsLn, RawTarget(v)))

Init ==
  /\ opt \in Options
  /\ pc = "start"
  /\ fatal = ""
  /\ positionId = 0
  /\ stageId = 0
  /\ workingChain = <<>>
  /\ workingLogLikelihoodValues = <<>>
  /\ workingLogTargetValues = <<>>
  /\ rawChainInfo = ResetInfo
  /\ currentPositionData = NoData
  /\ currentCandidateData = NoData
  /\ tmpVecValues = "none"
  /\ outOfTargetSupport = FALSE
  /\ validPreComputingPosition = FALSE
  /\ accept = FALSE
  /\ drPositionsData = <<>>
  /\ tkStageIds = <<>>
  /\ preComputingPositions = ClearedPositions
  /\ tkCovMatrix = InitialProposalCovMatrix
  /\ lastChainSize = 0
  /\ lastMean = NullVector
  /\ lastAdaptedCovMatrix = NullMatrix
  /\ outOfSupportDraws = 0

\* UQ_FATAL_TEST_MACRO fired: the run is aborted where it stands
Abort(msg) == pc' = "fatal" /\ fatal' = msg

amVars == <<tkCovMatrix, lastChainSize, lastMean, lastAdaptedCovMatrix>>
drVars == <<drPositionsData, tkStageIds>>
chainVars == <<workingChain, workingLogLikelihoodValues, workingLogTargetValues>>

\* SetFirstPosition with the evaluator called ahead of the support check
\* (the variant C2 is tested against)
SetFirstPositionEvaluatingFirst ==
  /\ pc = "start"
  /\ rawChainInfo' = [ResetInfo EXCEPT !.numTargetCalls = 1]
  /\ outOfTargetSupport' = ~InDomain(opt.initialPosition)
  /\ IF ~InDomain(opt.initialPosition)
     THEN /\ Abort("initial position should not be out of target pdf support")
          /\ UNCHANGED <<positionId, chainVars, currentPositionData>>
     ELSE LET data == Evaluate(opt.initialPosition, FALSE)
              n == opt.rawChainSize
          IN  /\ currentPositionData' = data
              /\ workingChain' = [ResizedChain(n) EXCEPT ![1] = data.vec]
              /\ workingLogLikelihoodValues' =
                   IF opt.wantLogLikelihood
                   THEN [ResizedScalars(n) EXCEPT ![1] = data.ll] ELSE <<>>
              /\ workingLogTargetValues' =
                   IF opt.wantLogTarget
                   THEN [ResizedScalars(n) EXCEPT ![1] = data.lt] ELSE <<>>
              /\ positionId' = 1
              /\ pc' = IF 1 < n THEN "step" ELSE "done"
              /\ fatal' = fatal
  /\ UNCHANGED <<opt, outOfSupportDraws, stageId, currentCandidateData, tmpVecValues,
                 validPreComputingPosition, accept, drVars,
                 preComputingPositions, amVars>>

\* SetFirstPosition with the sequences resized ahead of the support check
\* (the variant C3 is tested against)
SetFirstPositionResizingFirst ==
  /\ pc = "start"
  /\ rawChainInfo' = IF InDomain(opt.initialPosition)
                     THEN [ResetInfo EXCEPT !.numTargetCalls = 1]
                     ELSE ResetInfo
  /\ outOfTargetSupport' = ~InDomain(opt.initialPosition)
  /\ LET data == Evaluate(opt.initialPosition, FALSE)
         n == opt.rawChainSize
     IN  IF ~InDomain(opt.initialPosition)
         THEN /\ Abort("initial position should not be out of target pdf support")
              /\ workingChain' = ResizedChain(n)
              /\ workingLogLikelihoodValues' =
                   IF opt.wantLogLikelihood THEN ResizedScalars(n) ELSE <<>>
              /\ workingLogTargetValues' =
                   IF opt.wantLogTarget THEN ResizedScalars(n) ELSE <<>>
              /\ UNCHANGED <<positionId, currentPositionData>>
         ELSE /\ currentPositionData' = data
              /\ workingChain' = [ResizedChain(n) EXCEPT ![1] = data.vec]
              /\ workingLogLikelihoodValues' =
                   IF opt.wantLogLikelihood
                   THEN [ResizedScalars(n) EXCEPT ![1] = data.ll] ELSE <<>>
              /\ workingLogTargetValues' =
                   IF opt.wantLogTarget
                   THEN [ResizedScalars(n) EXCEPT ![1] = data.lt] ELSE <<>>
              /\ positionId' = 1
              /\ pc' = IF 1 < n THEN "step" ELSE "done"
              /\ fatal' = fatal
  /\ UNCHANGED <<opt, outOfSupportDraws, stageId, currentCandidateData, tmpVecValues,
                 validPreComputingPosition, accept, drVars,
                 preComputingPositions, amVars>>

\* SetFirstPosition without the count of the initial evaluation (the variant
\* C13 is tested against)
SetFirstPositionNotCounted ==
  /\ pc = "start"
  /\ rawChainInfo' = ResetInfo
  /\ outOfTargetSupport' = ~InDomain(opt.initialPosition)
  /\ IF ~InDomain(opt.initialPosition)
     THEN /\ Abort("initial position should not be out of target pdf support")
          /\ UNCHANGED <<positionId, chainVars, currentPositionData>>
     ELSE LET data == Evaluate(opt.initialPosition, FALSE)
              n == opt.rawChainSize
          IN  /\ currentPositionData' = data
              /\ workingChain' = [ResizedChain(n) EXCEPT ![1] = data.vec]
              /\ workingLogLikelihoodValues' =
                   IF opt.wantLogLikelihood
                   THEN [ResizedScalars(n) EXCEPT ![1] = data.ll] ELSE <<>>
              /\ workingLogTargetValues' =
                   IF opt.wantLogTarget
                   THEN [ResizedScalars(n) EXCEPT ![1] = data.lt] ELSE <<>>
              /\ positionId' = 1
              /\ pc' = IF 1 < n THEN "step" ELSE "done"
              /\ fatal' = fatal
  /\ UNCHANGED <<opt, outOfSupportDraws, stageId, currentCandidateData, tmpVecValues,
                 validPreComputingPosition, accept, drVars,
                 preComputingPositions, amVars>>

\* generateFullChain up to the chain loop: reset, support check of the initial
\* position, its evaluation, resize of the sequences, chain position 0
SetFirstPosition ==
  /\ pc = "start"
  /\ rawChainInfo' = IF InDomain(opt.initialPosition)
                     THEN [ResetInfo EXCEPT !.numTargetCalls = 1]
                     ELSE ResetInfo
  /\ outOfTargetSupport' = ~InDomain(opt.initialPosition)
  /\ IF ~InDomain(opt.initialPosition)
     THEN /\ Abort("initial position should not be out of target pdf support")
          /\ UNCHANGED <<positionId, chainVars, currentPositionData>>
     ELSE LET data == Evaluate(opt.initialPosition, FALSE)
              n == opt.rawChainSize
          IN  /\ currentPositionData' = data
              /\ workingChain' = [ResizedChain(n) EXCEPT ![1] = data.vec]
              /\ workingLogLikelihoodValues' =
                   IF opt.wantLogLikelihood
                   THEN [ResizedScalars(n) EXCEPT ![1] = data.ll] ELSE <<>>
              /\ workingLogTargetValues' =
                   IF opt.wantLogTarget
                   THEN [ResizedScalars(n) EXCEPT ![1] = data.lt] ELSE <<>>
              /\ positionId' = 1
              /\ pc' = IF 1 < n THEN "step" ELSE "done"
              /\ fatal' = fatal
  /\ UNCHANGED <<opt, outOfSupportDraws, stageId, currentCandidateData, tmpVecValues,
                 validPreComputingPosition, accept, drVars,
                 preComputingPositions, amVars>>

\* Point 1/6: clear the TK and set the current position as pre-computing
\* position of local id 0
BeginPosition ==
  /\ pc = "step"
  /\ stageId' = 0
  /\ preComputingPositions' =
       [ClearedPositions EXCEPT ![0] = currentPositionData.vec]
  /\ validPreComputingPosition' =
       TKValidAt(opt.tkUseLocalHessian, currentPositionData.vec)
  /\ IF validPreComputingPosition' = FALSE
     THEN Abort("initial position should not be an invalid pre computing position")
     ELSE pc' = "draw0" /\ fatal' = fatal
  /\ UNCHANGED <<opt, outOfSupportDraws, positionId, chainVars, rawChainInfo, currentPositionData,
                 currentCandidateData, tmpVecValues, outOfTargetSupport,
                 accept, drVars, amVars>>

\* Realization leaving the loop after its first pass whatever the option
\* (the variant C27 is tested against)
RealizationKeepingFirstDraw(v, here, next) ==
  /\ tmpVecValues' = v
  /\ outOfSupportDraws' =
       IF ~InDomain(v) /\ outOfSupportDraws < MaxDraws
       THEN outOfSupportDraws + 1 ELSE outOfSupportDraws
  /\ outOfTargetSupport' = ~InDomain(v)
  /\ pc' = next

\* one pass of a 'while (keepGeneratingCandidates)' loop: the TK realizes v
Realization(v, here, next) ==
  /\ tmpVecValues' = v
  /\ outOfSupportDraws' =
       IF ~InDomain(v) /\ outOfSupportDraws < MaxDraws
       THEN outOfSupportDraws + 1 ELSE outOfSupportDraws
  /\ outOfTargetSupport' = ~InDomain(v)
  /\ pc' = IF opt.putOutOfBoundsInChain THEN next
           ELSE IF ~InDomain(v) THEN here ELSE next

\* Point 2/6: generate the stage-0 candidate
GenerateCandidate ==
  /\ pc = "draw0"
  /\ \E v \in Points : Realization(v, "draw0", "eval0")
  /\ UNCHANGED <<opt, fatal, positionId, stageId, chainVars, rawChainInfo,
                 currentPositionData, currentCandidateData,
                 validPreComputingPosition, accept, drVars,
                 preComputingPositions, amVars>>

\* CountCandidate with the evaluator called for out-of-support candidates too
\* (the variant C12 is tested against)
CountCandidateCallingAlways(info, out, inDR) ==
  IF out
  THEN IF inDR
       THEN [info EXCEPT !.numOutOfTargetSupportInDR = @ + 1,
                         !.numTargetCalls = @ + 1]
       ELSE [info EXCEPT !.numOutOfTargetSupport = @ + 1,
                         !.numTargetCalls = @ + 1]
  ELSE [info EXCEPT !.numTargetCalls = @ + 1]

\* CountCandidate with the out-of-support candidates of the extra stages
\* counted in numOutOfTargetSupport (the variant C14 is tested against)
CountCandidateInOneCounter(info, out, inDR) ==
  IF out
  THEN [info EXCEPT !.numOutOfTargetSupport = @ + 1]
  ELSE [info EXCEPT !.numTargetCalls = @ + 1]

\* the counters after a candidate was (or was not) evaluated
CountCandidate(info, out, inDR) ==
  IF out
  THEN IF inDR
       THEN [info EXCEPT !.numOutOfTargetSupportInDR = @ + 1]
       ELSE [info EXCEPT !.numOutOfTargetSupport = @ + 1]
  ELSE [info EXCEPT !.numTargetCalls = @ + 1]

\* Point 2/6, continued: pre-computing position of the candidate, its
\* evaluation, alpha(x,y) and the Metropolis-Hastings acceptance
EvaluateCandidate ==
  /\ pc = "eval0"
  /\ validPreComputingPosition' = TKValidAt(opt.tkUseLocalHessian, tmpVecValues)
  /\ preComputingPositions' =
       [preComputingPositions EXCEPT ![stageId + 1] = tmpVecValues]
  /\ rawChainInfo' = CountCandidate(rawChainInfo, outOfTargetSupport, FALSE)
  /\ currentCandidateData' = Evaluate(tmpVecValues, outOfTargetSupport)
  /\ IF outOfTargetSupport
     THEN accept' = FALSE
     ELSE \E tk \in {[TK EXCEPT !.pre[stageId + 1] = tmpVecValues]},
             candidate \in {Evaluate(tmpVecValues, outOfTargetSupport)} :
          \E alphaFirstCandidate \in
               {AlphaXY(tk, currentPositionData, candidate, 0, 1)} :
            \E u \in UniformSamples :
              accept' = AcceptAlpha(alphaFirstCandidate, u)
  /\ pc' = "drgate"
  /\ UNCHANGED <<opt, outOfSupportDraws, fatal, positionId, stageId, chainVars,
                 currentPositionData, tmpVecValues, outOfTargetSupport,
                 drVars, amVars>>

\* the 'Avoid DR now' condition without its test of the TK variant (the
\* variant C7 is tested against)
AvoidDRNowAnyTK ==
  /\ opt.drDuringAmNonAdaptiveInt = FALSE
  /\ opt.amInitialNonAdaptInterval > 0
  /\ opt.amAdaptInterval > 0
  /\ positionId <= opt.amInitialNonAdaptInterval

\* the 'Avoid DR now' condition
AvoidDRNow ==
  /\ opt.drDuringAmNonAdaptiveInt = FALSE
  /\ opt.tkUseLocalHessian = FALSE
  /\ opt.amInitialNonAdaptInterval > 0
  /\ opt.amAdaptInterval > 0
  /\ positionId <= opt.amInitialNonAdaptInterval

\* the guard of the delayed-rejection logic without its test of the support
\* (the variant C6 is tested against)
EntersDRIgnoringSupport ==
  /\ accept = FALSE
  /\ opt.drMaxNumExtraStages > 0
  /\ ~AvoidDRNow

\* whether the step enters the delayed-rejection logic
EntersDR ==
  /\ accept = FALSE
  /\ outOfTargetSupport = FALSE
  /\ opt.drMaxNumExtraStages > 0
  /\ ~AvoidDRNow

\* delayed rejection whose first extra stage runs before
\* drMaxNumExtraStages is tested (the variant C8 is tested against)
DelayedRejectionTestingStagesLate ==
  /\ pc = "drgate"
  /\ IF accept = FALSE /\ outOfTargetSupport = FALSE /\ ~AvoidDRNow
     THEN /\ drPositionsData' = <<currentPositionData, currentCandidateData>>
          /\ tkStageIds' = <<0, 1>>
          /\ rawChainInfo' = [rawChainInfo EXCEPT !.numDRs = @ + 1]
          /\ stageId' = stageId + 1
          /\ pc' = "drdraw"
     ELSE /\ drPositionsData' = <<NoData, NoData>>
          /\ tkStageIds' = <<0, 0>>
          /\ pc' = "commit"
          /\ UNCHANGED <<rawChainInfo, stageId>>
  /\ UNCHANGED <<opt, outOfSupportDraws, fatal, positionId, chainVars,
                 currentPositionData, currentCandidateData, tmpVecValues,
                 outOfTargetSupport, validPreComputingPosition, accept,
                 preComputingPositions, amVars>>

\* Point 3/6: delayed rejection, up to the stage loop
DelayedRejection ==
  /\ pc = "drgate"
  /\ IF EntersDR
     THEN /\ drPositionsData' = <<currentPositionData, currentCandidateData>>
          /\ tkStageIds' = <<0, 1>>
          /\ pc' = "drloop"
     ELSE /\ drPositionsData' = <<NoData, NoData>>
          /\ tkStageIds' = <<0, 0>>
          /\ pc' = "commit"
  /\ UNCHANGED <<opt, outOfSupportDraws, fatal, positionId, stageId, chainVars, rawChainInfo,
                 currentPositionData, currentCandidateData, tmpVecValues,
                 outOfTargetSupport, validPreComputingPosition, accept,
                 preComputingPositions, amVars>>

\* the stage loop starting an extra stage without counting it in numDRs (the
\* variant C37 is tested against)
DRStageLoopNotCounted ==
  /\ pc = "drloop"
  /\ IF /\ validPreComputingPosition = TRUE
        /\ accept = FALSE
        /\ stageId < opt.drMaxNumExtraStages
     THEN /\ stageId' = stageId + 1
          /\ pc' = "drdraw"
     ELSE /\ pc' = "commit"
          /\ UNCHANGED stageId
  /\ UNCHANGED <<opt, outOfSupportDraws, fatal, positionId, chainVars, currentPositionData,
                 currentCandidateData, tmpVecValues, outOfTargetSupport,
                 validPreComputingPosition, accept, drVars, rawChainInfo,
                 preComputingPositions, amVars>>

\* the stage loop going on to its next stage after an acceptance (the
\* variant C29 is tested against)
DRStageLoopIgnoringAcceptance ==
  /\ pc = "drloop"
  /\ IF /\ validPreComputingPosition = TRUE
        /\ stageId < opt.drMaxNumExtraStages
     THEN /\ rawChainInfo' = [rawChainInfo EXCEPT !.numDRs = @ + 1]
          /\ stageId' = stageId + 1
          /\ pc' = "drdraw"
     ELSE /\ pc' = "commit"
          /\ UNCHANGED <<rawChainInfo, stageId>>
  /\ UNCHANGED <<opt, outOfSupportDraws, fatal, positionId, chainVars, currentPositionData,
                 currentCandidateData, tmpVecValues, outOfTargetSupport,
                 validPreComputingPosition, accept, drVars,
                 preComputingPositions, amVars>>

\* the test of the stage loop and the start of an extra stage
DRStageLoop ==
  /\ pc = "drloop"
  /\ IF /\ validPreComputingPosition = TRUE
        /\ accept = FALSE
        /\ stageId < opt.drMaxNumExtraStages
     THEN /\ rawChainInfo' = [rawChainInfo EXCEPT !.numDRs = @ + 1]
          /\ stageId' = stageId + 1
          /\ pc' = "drdraw"
     ELSE /\ pc' = "commit"
          /\ UNCHANGED <<rawChainInfo, stageId>>
  /\ UNCHANGED <<opt, outOfSupportDraws, fatal, positionId, chainVars, currentPositionData,
                 currentCandidateData, tmpVecValues, outOfTargetSupport,
                 validPreComputingPosition, accept, drVars,
                 preComputingPositions, amVars>>

\* generate the candidate of an extra stage
DRGenerateCandidate ==
  /\ pc = "drdraw"
  /\ \E v \in Points : Realization(v, "drdraw", "dreval")
  /\ UNCHANGED <<opt, fatal, positionId, stageId, chainVars, rawChainInfo,
                 currentPositionData, currentCandidateData,
                 validPreComputingPosition, accept, drVars,
                 preComputingPositions, amVars>>

\* pre-computing position of the extra-stage candidate, its evaluation,
\* alpha(vec) and the acceptance
DREvaluateCandidate ==
  /\ pc = "dreval"
  /\ validPreComputingPosition' = TKValidAt(opt.tkUseLocalHessian, tmpVecValues)
  /\ preComputingPositions' =
       [preComputingPositions EXCEPT ![stageId + 1] = tmpVecValues]
  /\ rawChainInfo' = CountCandidate(rawChainInfo, outOfTargetSupport, TRUE)
  /\ currentCandidateData' = Evaluate(tmpVecValues, outOfTargetSupport)
  /\ drPositionsData' =
       Append(drPositionsData, Evaluate(tmpVecValues, outOfTargetSupport))
  /\ tkStageIds' = Append(tkStageIds, stageId + 1)
  /\ IF outOfTargetSupport
     THEN accept' = accept
     ELSE \E tk \in {[TK EXCEPT !.pre[stageId + 1] = tmpVecValues]},
             positions \in {Append(drPositionsData,
                                   Evaluate(tmpVecValues, outOfTargetSupport))},
             ids \in {Append(tkStageIds, stageId + 1)} :
          \E alphaDR \in {AlphaVec(tk, positions, ids)} :
            \E u \in UniformSamples : accept' = AcceptAlpha(alphaDR, u)
  /\ pc' = "drloop"
  /\ UNCHANGED <<opt, outOfSupportDraws, fatal, positionId, stageId, chainVars,
                 currentPositionData, tmpVecValues, outOfTargetSupport, amVars>>

\* UpdateChain recording the log values of the last candidate whether or not
\* it was accepted (the variant C1 is tested against)
UpdateChainRecordingCandidate ==
  /\ pc = "commit"
  /\ currentPositionData' =
       IF accept THEN currentCandidateData ELSE currentPositionData
  /\ workingChain' =
       [workingChain EXCEPT ![positionId + 1] = currentPositionData'.vec]
  /\ rawChainInfo' =
       IF accept THEN rawChainInfo
       ELSE [rawChainInfo EXCEPT !.numRejections = @ + 1]
  /\ workingLogLikelihoodValues' =
       IF opt.wantLogLikelihood
       THEN [workingLogLikelihoodValues EXCEPT ![positionId + 1] = currentCandidateData.ll]
       ELSE workingLogLikelihoodValues
  /\ workingLogTargetValues' =
       IF opt.wantLogTarget
       THEN [workingLogTargetValues EXCEPT ![positionId + 1] = currentCandidateData.lt]
       ELSE workingLogTargetValues
  /\ drPositionsData' = <<>>
  /\ pc' = "am"
  /\ UNCHANGED <<opt, outOfSupportDraws, fatal, positionId, stageId, currentCandidateData,
                 tmpVecValues, outOfTargetSupport, validPreComputingPosition,
                 accept, tkStageIds, preComputingPositions, amVars>>

\* UpdateChain counting a rejection at every step (the variant C4 is tested
\* against)
UpdateChainCountingEveryStep ==
  /\ pc = "commit"
  /\ currentPositionData' =
       IF accept THEN currentCandidateData ELSE currentPositionData
  /\ workingChain' =
       [workingChain EXCEPT ![positionId + 1] = currentPositionData'.vec]
  /\ rawChainInfo' = [rawChainInfo EXCEPT !.numRejections = @ + 1]
  /\ workingLogLikelihoodValues' =
       IF opt.wantLogLikelihood
       THEN [workingLogLikelihoodValues EXCEPT ![positionId + 1] = currentPositionData'.ll]
       ELSE workingLogLikelihoodValues
  /\ workingLogTargetValues' =
       IF opt.wantLogTarget
       THEN [workingLogTargetValues EXCEPT ![positionId + 1] = currentPositionData'.lt]
       ELSE workingLogTargetValues
  /\ drPositionsData' = <<>>
  /\ pc' = "am"
  /\ UNCHANGED <<opt, outOfSupportDraws, fatal, positionId, stageId, currentCandidateData,
                 tmpVecValues, outOfTargetSupport, validPreComputingPosition,
                 accept, tkStageIds, preComputingPositions, amVars>>

\* UpdateChain leaving the position of the chain unwritten (the variant C19
\* is tested against)
UpdateChainNotWritingPosition ==
  /\ pc = "commit"
  /\ currentPositionData' =
       IF accept THEN currentCandidateData ELSE currentPositionData
  /\ workingChain' = workingChain
  /\ rawChainInfo' =
       IF accept THEN rawChainInfo
       ELSE [rawChainInfo EXCEPT !.numRejections = @ + 1]
  /\ workingLogLikelihoodValues' =
       IF opt.wantLogLikelihood
       THEN [workingLogLikelihoodValues EXCEPT ![positionId + 1] = currentPositionData'.ll]
       ELSE workingLogLikelihoodValues
  /\ workingLogTargetValues' =
       IF opt.wantLogTarget
       THEN [workingLogTargetValues EXCEPT ![positionId + 1] = currentPositionData'.lt]
       ELSE workingLogTargetValues
  /\ drPositionsData' = <<>>
  /\ pc' = "am"
  /\ UNCHANGED <<opt, outOfSupportDraws, fatal, positionId, stageId, currentCandidateData,
                 tmpVecValues, outOfTargetSupport, validPreComputingPosition,
                 accept, tkStageIds, preComputingPositions, amVars>>

\* UpdateChain writing one entry too far (the variant C24 is tested against)
UpdateChainWritingNextEntry ==
  /\ pc = "commit"
  /\ currentPositionData' =
       IF accept THEN currentCandidateData ELSE currentPositionData
  /\ workingChain' =
       [workingChain EXCEPT ![positionId + 2] = currentPositionData'.vec]
  /\ rawChainInfo' =
       IF accept THEN rawChainInfo
       ELSE [rawChainInfo EXCEPT !.numRejections = @ + 1]
  /\ workingLogLikelihoodValues' =
       IF opt.wantLogLikelihood
       THEN [workingLogLikelihoodValues EXCEPT ![positionId + 1] = currentPositionData'.ll]
       ELSE workingLogLikelihoodValues
  /\ workingLogTargetValues' =
       IF opt.wantLogTarget
       THEN [workingLogTargetValues EXCEPT ![positionId + 1] = currentPositionData'.lt]
       ELSE workingLogTargetValues
  /\ drPositionsData' = <<>>
  /\ pc' = "am"
  /\ UNCHANGED <<opt, outOfSupportDraws, fatal, positionId, stageId, currentCandidateData,
                 tmpVecValues, outOfTargetSupport, validPreComputingPosition,
                 accept, tkStageIds, preComputingPositions, amVars>>

\* UpdateChain moving to the last candidate whether or not it was accepted
\* (the variant C34 is tested against)
UpdateChainMovingAlways ==
  /\ pc = "commit"
  /\ currentPositionData' = currentCandidateData
  /\ workingChain' =
       [workingChain EXCEPT ![positionId + 1] = currentPositionData'.vec]
  /\ rawChainInfo' =
       IF accept THEN rawChainInfo
       ELSE [rawChainInfo EXCEPT !.numRejections = @ + 1]
  /\ workingLogLikelihoodValues' =
       IF opt.wantLogLikelihood
       THEN [workingLogLikelihoodValues EXCEPT ![positionId + 1] = currentPositionData'.ll]
       ELSE workingLogLikelihoodValues
  /\ workingLogTargetValues' =
       IF opt.wantLogTarget
       THEN [workingLogTargetValues EXCEPT ![positionId + 1] = currentPositionData'.lt]
       ELSE workingLogTargetValues
  /\ drPositionsData' = <<>>
  /\ pc' = "am"
  /\ UNCHANGED <<opt, outOfSupportDraws, fatal, positionId, stageId, currentCandidateData,
                 tmpVecValues, outOfTargetSupport, validPreComputingPosition,
                 accept, tkStageIds, preComputingPositions, amVars>>

\* Point 4/6: update chain
UpdateChain ==
  /\ pc = "commit"
  /\ currentPositionData' =
       IF accept THEN currentCandidateData ELSE currentPositionData
  /\ workingChain' =
       [workingChain EXCEPT ![positionId + 1] = currentPositionData'.vec]
  /\ rawChainInfo' =
       IF accept THEN rawChainInfo
       ELSE [rawChainInfo EXCEPT !.numRejections = @ + 1]
  /\ workingLogLikelihoodValues' =
       IF opt.wantLogLikelihood
       THEN [workingLogLikelihoodValues EXCEPT ![positionId + 1] = currentPositionData'.ll]
       ELSE workingLogLikelihoodValues
  /\ workingLogTargetValues' =
       IF opt.wantLogTarget
       THEN [workingLogTargetValues EXCEPT ![positionId + 1] = currentPositionData'.lt]
       ELSE workingLogTargetValues
  /\ drPositionsData' = <<>>
  /\ pc' = "am"
  /\ UNCHANGED <<opt, outOfSupportDraws, fatal, positionId, stageId, currentCandidateData,
                 tmpVecValues, outOfTargetSupport, validPreComputingPosition,
                 accept, tkStageIds, preComputingPositions, amVars>>

(***************************************************************************)
(* updateAdaptedCovMatrix(partialChain, idOfFirstPositionInSubChain,       *)
(*                        lastChainSize, lastMean, lastAdaptedCovMatrix)   *)
(* am = [size, mean, cov]; the result adds the fatal message, "" if none   *)
(***************************************************************************)
RECURSIVE FoldPositions(_, _, _, _)
\* the loop of the incremental branch, from index i of partialChain on
FoldPositions(partialChain, idOfFirstPositionInSubChain, i, last) ==
  LET currentId == idOfFirstPositionInSubChain + (i - 1)
      ratio1 == Sub(One, Div(One, Fin(currentId, 1)))
      ratio2 == Div(One, Fin(1 + currentId, 1))
  IN  IF i > Len(partialChain) THEN last
      ELSE CHOOSE r \in
             {FoldPositions(partialChain, idOfFirstPositionInSubChain, i + 1,
                [am EXCEPT
                   !.cov = MatAdd(MatScale(ratio1, am.cov),
                                  MatScale(ratio2, MatrixProduct(diffVec, diffVec))),
                   !.mean = VecAdd(am.mean, VecScale(ratio2, diffVec))]) :
              am \in {last}, diffVec \in {VecSub(partialChain[i], last.mean)}} : TRUE

\* FirstAdaptedCovMatrix subtracting the product of the mean with the first
\* position instead of with itself (the variant C22 is tested against)
FirstAdaptedCovMatrixOffCentre(partialChain, am) ==
  LET n == Len(partialChain)
      sum == MatSum([i \in 1..n |->
                       MatrixProduct(partialChain[i], partialChain[i])])
  IN  CHOOSE r \in
        {[fatal |-> "",
          size |-> am.size + n,
          mean |-> mean,
          cov |-> MatScale(Div(One, Fin(n - 1, 1)),
                    MatAdd(MatScale(Fin(-n, 1),
                                    MatrixProduct(mean, partialChain[1])),
                           sum))] :
         mean \in {SubMeanPlain(partialChain)}} : TRUE

\* the first-call branch: sample mean and covariance of partialChain
FirstAdaptedCovMatrix(partialChain, am) ==
  LET n == Len(partialChain)
      sum == MatSum([i \in 1..n |->
                       MatrixProduct(partialChain[i], partialChain[i])])
  IN  CHOOSE r \in
        {[fatal |-> "",
          size |-> am.size + n,
          mean |-> mean,
          cov |-> MatScale(Div(One, Fin(n - 1, 1)),
                    MatAdd(MatScale(Fin(-n, 1), MatrixProduct(mean, mean)),
                           sum))] :
         mean \in {SubMeanPlain(partialChain)}} : TRUE

\* updateAdaptedCovMatrix counting one position per call of its incremental
\* branch (the variant C33 is tested against)
UpdateAdaptedCovMatrixCountingCalls(partialChain, idOfFirstPositionInSubChain, am) ==
  LET n == Len(partialChain)
  IN  IF am.size = 0
      THEN IF n < 2
           THEN [am EXCEPT !.fatal = "'partialChain.subSequenceSize()' should be >= 2"]
           ELSE FirstAdaptedCovMatrix(partialChain, am)
      ELSE IF n < 1
           THEN [am EXCEPT !.fatal = "'partialChain.subSequenceSize()' should be >= 1"]
           ELSE IF idOfFirstPositionInSubChain < 1
           THEN [am EXCEPT !.fatal = "'idOfFirstPositionInSubChain' should be >= 1"]
           ELSE [FoldPositions(partialChain, idOfFirstPositionInSubChain, 1, am)
                   EXCEPT !.size = am.size + 1]

UpdateAdaptedCovMatrix(partialChain, idOfFirstPositionInSubChain, am) ==
  LET n == Len(partialChain)
  IN  IF am.size = 0
      THEN IF n < 2
           THEN [am EXCEPT !.fatal = "'partialChain.subSequenceSize()' should be >= 2"]
           ELSE FirstAdaptedCovMatrix(partialChain, am)
      ELSE IF n < 1
           THEN [am EXCEPT !.fatal = "'partialChain.subSequenceSize()' should be >= 1"]
           ELSE IF idOfFirstPositionInSubChain < 1
           THEN [am EXCEPT !.fatal = "'idOfFirstPositionInSubChain' should be >= 1"]
           ELSE [FoldPositions(partialChain, idOfFirstPositionInSubChain, 1, am)
                   EXCEPT !.size = am.size + n]

\* AMEnabled without the test of m_amInitialNonAdaptInterval (the variant
\* C18 is tested against)
AMEnabledWithoutInitialInterval ==
  /\ opt.tkUseLocalHessian = FALSE
  /\ opt.amAdaptInterval > 0

\* whether the adaptive Metropolis logic runs at all
AMEnabled ==
  /\ opt.tkUseLocalHessian = FALSE
  /\ opt.amInitialNonAdaptInterval > 0
  /\ opt.amAdaptInterval > 0

\* PartialChainSize with the test of the adaptation interval left out (the
\* variant C16 is tested against)
PartialChainSizeEveryPosition(id) ==
  IF id < opt.amInitialNonAdaptInterval THEN 0
  ELSE IF id = opt.amInitialNonAdaptInterval
       THEN opt.amInitialNonAdaptInterval + 1
  ELSE opt.amAdaptInterval

\* size of partialChain at this position: 0 when it is not the moment to adapt
PartialChainSize(id) ==
  IF id < opt.amInitialNonAdaptInterval THEN 0
  ELSE IF id = opt.amInitialNonAdaptInterval
       THEN opt.amInitialNonAdaptInterval + 1
  ELSE IF ((id - opt.amInitialNonAdaptInterval) % opt.amAdaptInterval) = 0
       THEN opt.amAdaptInterval
  ELSE 0

IdOfFirstPositionInSubChain(id) ==
  IF id <= opt.amInitialNonAdaptInterval THEN 0
  ELSE IF ((id - opt.amInitialNonAdaptInterval) % opt.amAdaptInterval) = 0
       THEN id - opt.amAdaptInterval
  ELSE 0

\* the copy of the working chain handed to updateAdaptedCovMatrix
PartialChain(chain, id) ==
  [i \in 1..PartialChainSize(id) |->
     Coordinates(chain[IdOfFirstPositionInSubChain(id) + i])]

\* CholAttempts with the matrix of the second attempt taken as good whatever
\* chol() returns (the variant C20 is tested against)
CholAttemptsTrustingSecond(cov) ==
  LET first == Chol(cov)
      ridged == MatAdd(cov, DiagMatrix(opt.amEpsilon))
  IN  IF first = UQ_OK_RC
      THEN [fatal |-> "", positiveDefinite |-> TRUE, attemptedMatrix |-> cov]
      ELSE [fatal |-> "", positiveDefinite |-> TRUE, attemptedMatrix |-> ridged]

\* CholAttempts with attemptedMatrix left at the adapted matrix when the
\* ridge attempt succeeds (the variant C21 is tested against)
CholAttemptsKeepingFirstMatrix(cov) ==
  LET first == Chol(cov)
      ridged == MatAdd(cov, DiagMatrix(opt.amEpsilon))
      second == Chol(ridged)
  IN  IF first = UQ_OK_RC
      THEN [fatal |-> "", positiveDefinite |-> TRUE, attemptedMatrix |-> cov]
      ELSE IF second = UQ_OK_RC
      THEN [fatal |-> "", positiveDefinite |-> TRUE, attemptedMatrix |-> cov]
      ELSE [fatal |-> "", positiveDefinite |-> FALSE, attemptedMatrix |-> ridged]

\* the two Cholesky attempts on the adapted matrix: the return code that is
\* fatal (or ""), whether an attempt succeeded, and the matrix attempted last
CholAttempts(cov) ==
  LET first == Chol(cov)
      ridged == MatAdd(cov, DiagMatrix(opt.amEpsilon))
      second == Chol(ridged)
  IN  IF first = UQ_OK_RC
      THEN [fatal |-> "", positiveDefinite |-> TRUE, attemptedMatrix |-> cov]
      ELSE IF first # UQ_MATRIX_IS_NOT_POS_DEFINITE_RC
      THEN [fatal |-> "invalid iRC returned from first chol()",
            positiveDefinite |-> FALSE, attemptedMatrix |-> cov]
      ELSE IF second = UQ_OK_RC
      THEN [fatal |-> "", positiveDefinite |-> TRUE, attemptedMatrix |-> ridged]
      ELSE IF second # UQ_MATRIX_IS_NOT_POS_DEFINITE_RC
      THEN [fatal |-> "invalid iRC returned from second chol()",
            positiveDefinite |-> FALSE, attemptedMatrix |-> ridged]
      ELSE [fatal |-> "", positiveDefinite |-> FALSE, attemptedMatrix |-> ridged]

\* the end of the loop body with a loop test that stops one position early
\* (the variant C5 is tested against)
NextPositionStoppingEarly ==
  /\ positionId' = positionId + 1
  /\ pc' = IF positionId + 2 < Len(workingChain) THEN "step" ELSE "done"
  /\ fatal' = fatal
  /\ stageId' = 0
  /\ accept' = FALSE
  /\ tkStageIds' = <<>>
  /\ currentCandidateData' = NoData
  /\ tmpVecValues' = "none"
  /\ outOfTargetSupport' = FALSE
  /\ validPreComputingPosition' = FALSE

\* end of the loop body: ++positionId and the loop test; the locals of the
\* body go out of scope, and the candidate variables, which the next pass
\* overwrites before reading, are not carried over
NextPosition ==
  /\ positionId' = positionId + 1
  /\ pc' = IF positionId + 1 < Len(workingChain) THEN "step" ELSE "done"
  /\ fatal' = fatal
  /\ stageId' = 0
  /\ accept' = FALSE
  /\ tkStageIds' = <<>>
  /\ currentCandidateData' = NoData
  /\ tmpVecValues' = "none"
  /\ outOfTargetSupport' = FALSE
  /\ validPreComputingPosition' = FALSE

\* the adaptation keeping its statistics only when a Cholesky attempt
\* succeeds, and keeping the matrix that was factorised (the variant C38 is
\* tested against)
AdaptiveMetropolisStoringFactorised ==
  /\ pc = "am"
  /\ IF AMEnabled /\ PartialChainSize(positionId) > 0
     THEN \E partialChain \in {PartialChain(workingChain, positionId)},
             last \in {[fatal |-> "", size |-> lastChainSize,
                        mean |-> IF positionId = opt.amInitialNonAdaptInterval
                                 THEN ZeroVector ELSE lastMean,
                        cov |-> IF positionId = opt.amInitialNonAdaptInterval
                                THEN ZeroMatrix ELSE lastAdaptedCovMatrix]} :
          \E am \in {UpdateAdaptedCovMatrix(
                       partialChain, IdOfFirstPositionInSubChain(positionId),
                       last)} :
            IF am.fatal # ""
            THEN /\ Abort(am.fatal)
                 /\ lastMean' = am.mean
                 /\ lastAdaptedCovMatrix' = am.cov
                 /\ UNCHANGED <<lastChainSize, tkCovMatrix, positionId, stageId,
                                accept, tkStageIds, currentCandidateData,
                                tmpVecValues, outOfTargetSupport,
                                validPreComputingPosition>>
            ELSE \E chol \in {CholAttempts(am.cov)} :
                   /\ lastChainSize' =
                        IF chol.positiveDefinite THEN am.size ELSE lastChainSize
                   /\ lastMean' =
                        IF chol.positiveDefinite THEN am.mean ELSE lastMean
                   /\ lastAdaptedCovMatrix' =
                        IF chol.positiveDefinite THEN chol.attemptedMatrix
                        ELSE lastAdaptedCovMatrix
                   /\ IF chol.fatal # ""
                      THEN /\ Abort(chol.fatal)
                           /\ UNCHANGED <<tkCovMatrix, positionId, stageId,
                                          accept, tkStageIds, currentCandidateData,
                                          tmpVecValues, outOfTargetSupport,
                                          validPreComputingPosition>>
                      ELSE /\ tkCovMatrix' =
                                IF chol.positiveDefinite
                                THEN MatScale(opt.amEta, chol.attemptedMatrix)
                                ELSE tkCovMatrix
                           /\ NextPosition
     ELSE /\ NextPosition
          /\ UNCHANGED amVars
  /\ UNCHANGED <<opt, outOfSupportDraws, chainVars, rawChainInfo, currentPositionData,
                 drPositionsData, preComputingPositions>>

\* Point 5/6: adaptive Metropolis (adaptation of covariance matrix), and the
\* end of the loop body
AdaptiveMetropolis ==
  /\ pc = "am"
  /\ IF AMEnabled /\ PartialChainSize(positionId) > 0
     THEN \E partialChain \in {PartialChain(workingChain, positionId)},
             last \in {[fatal |-> "", size |-> lastChainSize,
                        mean |-> IF positionId = opt.amInitialNonAdaptInterval
                                 THEN ZeroVector ELSE lastMean,
                        cov |-> IF positionId = opt.amInitialNonAdaptInterval
                                THEN ZeroMatrix ELSE lastAdaptedCovMatrix]} :
          \E am \in {UpdateAdaptedCovMatrix(
                       partialChain, IdOfFirstPositionInSubChain(positionId),
                       last)} :
            IF am.fatal # ""
            THEN /\ Abort(am.fatal)
                 /\ lastMean' = am.mean
                 /\ lastAdaptedCovMatrix' = am.cov
                 /\ UNCHANGED <<lastChainSize, tkCovMatrix, positionId, stageId,
                                accept, tkStageIds, currentCandidateData,
                                tmpVecValues, outOfTargetSupport,
                                validPreComputingPosition>>
            ELSE \E chol \in {CholAttempts(am.cov)} :
                   /\ lastChainSize' = am.size
                   /\ lastMean' = am.mean
                   /\ lastAdaptedCovMatrix' = am.cov
                   /\ IF chol.fatal # ""
                      THEN /\ Abort(chol.fatal)
                           /\ UNCHANGED <<tkCovMatrix, positionId, stageId,
                                          accept, tkStageIds, currentCandidateData,
                                          tmpVecValues, outOfTargetSupport,
                                          validPreComputingPosition>>
                      ELSE /\ tkCovMatrix' =
                                IF chol.positiveDefinite
                                THEN MatScale(opt.amEta, chol.attemptedMatrix)
                                ELSE tkCovMatrix
                           /\ NextPosition
     ELSE /\ NextPosition
          /\ UNCHANGED amVars
  /\ UNCHANGED <<opt, outOfSupportDraws, chainVars, rawChainInfo, currentPositionData,
                 drPositionsData, preComputingPositions>>

Next ==
  \/ SetFirstPosition
  \/ BeginPosition
  \/ GenerateCandidate
  \/ EvaluateCandidate
  \/ DelayedRejection
  \/ DRStageLoop
  \/ DRGenerateCandidate
  \/ DREvaluateCandidate
  \/ UpdateChain
  \/ AdaptiveMetropolis

Spec == Init /\ [][Next]_vars

\* generateFullChain runs in one thread of control: it takes its next step
\* whenever it has one.  The realizations of the TK are random: in a redraw
\* loop (putOutOfBoundsInChain false) the in-support draw, possible at every
\* pass, is made at some pass
InSupportDraw ==
  /\ GenerateCandidate \/ DRGenerateCandidate
  /\ InDomain(tmpVecValues')

SpecFair == Spec /\ WF_vars(Next) /\ SF_vars(InSupportDraw)

(***************************************************************************)
(* Runs of one position more than MaxChainSize, with adaptation: the       *)
(* reference configuration with every pair of adaptation intervals         *)
(***************************************************************************)
InitLongerChain ==
  /\ opt \in {[Reference EXCEPT !.rawChainSize = MaxChainSize + 1,
                                !.amInitialNonAdaptInterval = i,
                                !.amAdaptInterval = a,
                                !.drDuringAmNonAdaptiveInt = d] :
              i \in 1..MaxInterval, a \in 1..MaxInterval, d \in BOOLEAN}
  /\ pc = "start"
  /\ fatal = ""
  /\ positionId = 0
  /\ stageId = 0
  /\ workingChain = <<>>
  /\ workingLogLikelihoodValues = <<>>
  /\ workingLogTargetValues = <<>>
  /\ rawChainInfo = ResetInfo
  /\ currentPositionData = NoData
  /\ currentCandidateData = NoData
  /\ tmpVecValues = "none"
  /\ outOfTargetSupport = FALSE
  /\ validPreComputingPosition = FALSE
  /\ accept = FALSE
  /\ drPositionsData = <<>>
  /\ tkStageIds = <<>>
  /\ preComputingPositions = ClearedPositions
  /\ tkCovMatrix = InitialProposalCovMatrix
  /\ lastChainSize = 0
  /\ lastMean = NullVector
  /\ lastAdaptedCovMatrix = NullMatrix
  /\ outOfSupportDraws = 0

SpecLongerChain == InitLongerChain /\ [][Next]_vars

(***************************************************************************)
(* Further runs: generateSequence called again on the same sampler         *)
(***************************************************************************)
\* A run has returned and generateSequence is called again with sequences of
\* the caller's: the locals of generateFullChain are new; the members keep
\* their values, m_rawChainInfo until the reset at the entry of the run,
\* m_lastChainSize, m_lastMean, m_lastAdaptedCovMatrix and the TK with its
\* covariance matrix until something assigns them
GenerateSequenceAgain ==
  /\ pc = "done"
  /\ pc' = "start"
  /\ positionId' = 0
  /\ stageId' = 0
  /\ workingChain' = <<>>
  /\ workingLogLikelihoodValues' = <<>>
  /\ workingLogTargetValues' = <<>>
  /\ currentPositionData' = NoData
  /\ currentCandidateData' = NoData
  /\ tmpVecValues' = "none"
  /\ outOfTargetSupport' = FALSE
  /\ validPreComputingPosition' = FALSE
  /\ accept' = FALSE
  /\ drPositionsData' = <<>>
  /\ tkStageIds' = <<>>
  /\ outOfSupportDraws' = 0
  /\ UNCHANGED <<opt, fatal, rawChainInfo, preComputingPositions, tkCovMatrix,
                 lastChainSize, lastMean, lastAdaptedCovMatrix>>

NextRuns == Next \/ GenerateSequenceAgain

SpecRuns == Init /\ [][NextRuns]_vars

(***************************************************************************)
(* Construction: constructors 1 and 2 and commonConstructor                *)
(***************************************************************************)
\* sizes of the vectors and matrices a caller may pass
MaxSize == 3

\* m_vectorSpace.dimLocal()
SpaceDimension == Cardinality(Dim)

\* a matrix argument is its shape <<numRows, numCols>>; NULL is no shape
NullCovMatrix == <<>>
NumRows(m) == m[1]
NumCols(m) == m[2]

\* what a caller passes besides the options: the constructor called, the
\* size of initialPosition, inputProposalCovMatrix (NULL or a matrix of some
\* shape) and m_initialProposalCovMatrixDataInputFileName ("." is no file)
ConstructorArguments ==
  [constructor : 1..2,
   initialPositionSize : 1..MaxSize,
   inputProposalCovMatrix :
     {NullCovMatrix} \cup ((1..MaxSize) \X (1..MaxSize)),
   initialProposalCovMatrixDataInputFileName : {".", "cov"}]

\* commonConstructor(): the message of its fatal test, or ""
CommonConstructor(s) ==
  IF s.tkUseLocalHessian THEN ""
  ELSE IF s.initialProposalCovMatrixDataInputFileName # "." THEN ""
  ELSE IF s.inputProposalCovMatrix = NullCovMatrix
  THEN "proposal cov matrix should have been passed by user"
  ELSE ""

\* constructor 1: its dimension tests, then commonConstructor()
Constructor1(s) ==
  IF SpaceDimension # s.initialPositionSize
  THEN "'sourceRv' and 'initialPosition' should have equal dimensions"
  ELSE IF /\ s.inputProposalCovMatrix # NullCovMatrix
          /\ SpaceDimension # NumRows(s.inputProposalCovMatrix)
  THEN "'sourceRv' and 'inputProposalCovMatrix' should have equal dimensions"
  ELSE IF /\ s.inputProposalCovMatrix # NullCovMatrix
          /\ NumCols(s.inputProposalCovMatrix) # NumRows(s.inputProposalCovMatrix)
  THEN "'inputProposalCovMatrix' should be a square matrix"
  ELSE CommonConstructor(s)

\* constructor 2: commonConstructor() alone
Constructor2(s) == CommonConstructor(s)

ConstructorFatal(s) ==
  IF s.constructor = 1 THEN Constructor1(s) ELSE Constructor2(s)

\* the options of a sampler under construction
OptionsOf(s) == [f \in DOMAIN Reference |-> s[f]]

\* a sampler about to be constructed: opt holds the options together with
\* the arguments of the constructor call
InitConstruction ==
  /\ opt \in {o @@ a : o \in Options, a \in ConstructorArguments}
  /\ pc = "new"
  /\ fatal = ""
  /\ positionId = 0
  /\ stageId = 0
  /\ workingChain = <<>>
  /\ workingLogLikelihoodValues = <<>>
  /\ workingLogTargetValues = <<>>
  /\ rawChainInfo = ResetInfo
  /\ currentPositionData = NoData
  /\ currentCandidateData = NoData
  /\ tmpVecValues = "none"
  /\ outOfTargetSupport = FALSE
  /\ validPreComputingPosition = FALSE
  /\ accept = FALSE
  /\ drPositionsData = <<>>
  /\ tkStageIds = <<>>
  /\ preComputingPositions = ClearedPositions
  /\ tkCovMatrix = InitialProposalCovMatrix
  /\ lastChainSize = 0
  /\ lastMean = NullVector
  /\ lastAdaptedCovMatrix = NullMatrix
  /\ outOfSupportDraws = 0

\* the constructor called runs to its end or to its first fatal test
Construct ==
  /\ pc = "new"
  /\ IF ConstructorFatal(opt) # ""
     THEN Abort(ConstructorFatal(opt)) /\ opt' = opt
     ELSE pc' = "start" /\ fatal' = fatal /\ opt' = OptionsOf(opt)
  /\ UNCHANGED <<positionId, stageId, workingChain, workingLogLikelihoodValues,
                 workingLogTargetValues, rawChainInfo, currentPositionData,
                 currentCandidateData, tmpVecValues, outOfTargetSupport,
                 validPreComputingPosition, accept, drPositionsData, tkStageIds,
                 preComputingPositions, tkCovMatrix, lastChainSize, lastMean,
                 lastAdaptedCovMatrix, outOfSupportDraws>>

NextConstruction == Construct \/ Next

SpecConstruction == InitConstruction /\ [][NextConstruction]_vars

(***************************************************************************)
(* Properties of generateFullChain                                         *)
(***************************************************************************)
InvalidInitialPoint == "initial position should not be out of target pdf support"
InvalidPreComputingPosition ==
  "initial position should not be an invalid pre computing position"

\* number of steps of the chain loop whose position has been written
Committed ==
  CASE pc = "start" -> 0
    [] pc = "am" -> positionId
    [] OTHER -> positionId - 1

(* C1: once generateFullChain has completed for an in-support initial point *)
(* and chain size N, the chain holds exactly N positions, position 0 holds  *)
(* the initial point, and every recorded log-likelihood and log-target      *)
(* (when these sequences are asked for) is the one of the sample stored at  *)
(* the same chain position.                                                 *)
C1_ChainAndLogValues ==
  (pc = "done" /\ InDomain(opt.initialPosition)) =>
    /\ Len(workingChain) = opt.rawChainSize
    /\ workingChain[1] = opt.initialPosition
    /\ opt.wantLogLikelihood =>
         /\ Len(workingLogLikelihoodValues) = opt.rawChainSize
         /\ \A i \in 1..opt.rawChainSize :
              workingLogLikelihoodValues[i] = RawLogLikelihood(workingChain[i])
    /\ opt.wantLogTarget =>
         /\ Len(workingLogTargetValues) = opt.rawChainSize
         /\ \A i \in 1..opt.rawChainSize :
              workingLogTargetValues[i] =
                FromRaw(opt.expectsLn, RawTarget(workingChain[i]))

\* a completed run of full length with an accepted and then a rejected step
C1_Witness ==
  /\ pc = "done"
  /\ opt.rawChainSize = MaxChainSize
  /\ opt.wantLogLikelihood /\ opt.wantLogTarget
  /\ workingChain[2] # workingChain[1]
  /\ workingChain[MaxChainSize] = workingChain[MaxChainSize - 1]
  /\ rawChainInfo.numRejections >= 1

(* C2: with the initial point outside the target's support the run aborts   *)
(* fatally before the evaluator is called and before the sequences are      *)
(* resized or written: numTargetCalls stays 0 and no chain is produced.     *)
C2_InvalidInitialPointAborts ==
  (~InDomain(opt.initialPosition) /\ pc # "start") =>
    /\ pc = "fatal"
    /\ fatal = InvalidInitialPoint
    /\ rawChainInfo.numTargetCalls = 0
    /\ workingChain = <<>>
    /\ workingLogLikelihoodValues = <<>>
    /\ workingLogTargetValues = <<>>
    /\ positionId = 0

C2_Witness ==
  /\ pc = "fatal"
  /\ opt.initialPosition = "out"
  /\ fatal = InvalidInitialPoint

(* C3, as amended: only the fatal error of the invalid initial point leaves *)
(* the chain buffer unresized and unwritten.  A fatal error raised inside   *)
(* the chain loop at step i >= 1 finds the buffer resized to N with the     *)
(* positions 0..i-1 written (and position i too, when the error is raised   *)
(* by the adaptation that follows the commit); later positions are          *)
(* unwritten.                                                               *)
C3_FatalAndBuffer ==
  pc = "fatal" =>
    IF fatal = InvalidInitialPoint
    THEN /\ workingChain = <<>>
         /\ workingLogLikelihoodValues = <<>>
         /\ workingLogTargetValues = <<>>
    ELSE /\ positionId >= 1
         /\ Len(workingChain) = opt.rawChainSize
         /\ \A j \in 1..Len(workingChain) :
              /\ j <= positionId => workingChain[j] # Unwritten
              /\ j > positionId + 1 => workingChain[j] = Unwritten
              /\ (fatal = InvalidPreComputingPosition /\ j > positionId)
                   => workingChain[j] = Unwritten

\* the fatal error of an invalid pre-computing position, at the second step
C3_Witness ==
  /\ pc = "fatal"
  /\ fatal = InvalidPreComputingPosition
  /\ positionId = 2
  /\ workingChain[2] # Unwritten

\* C3 as stated: whenever the run aborts with a fatal error the chain buffer
\* has not been resized and no position has been written
C3_NoPartialChainOnFatal ==
  pc = "fatal" =>
    /\ workingChain = <<>>
    /\ workingLogLikelihoodValues = <<>>
    /\ workingLogTargetValues = <<>>

\* the commit of a step, seen as a transition
C4_Commit ==
  LET i == positionId + 1
  IN  /\ pc = "commit" =>
           IF accept
           THEN /\ workingChain'[i] = currentCandidateData.vec
                /\ currentPositionData' = currentCandidateData
                /\ rawChainInfo'.numRejections = rawChainInfo.numRejections
           ELSE /\ workingChain'[i] = workingChain[i - 1]
                /\ currentPositionData' = currentPositionData
                /\ rawChainInfo'.numRejections = rawChainInfo.numRejections + 1
      /\ pc \notin {"start", "commit"} =>
           /\ workingChain' = workingChain
           /\ currentPositionData' = currentPositionData
           /\ rawChainInfo'.numRejections = rawChainInfo.numRejections

\* the rejections counted so far against the committed steps
C4_Count ==
  /\ pc = "start" => rawChainInfo.numRejections = 0
  /\ pc \notin {"start", "fatal"} =>
       /\ rawChainInfo.numRejections <= Committed
       /\ Cardinality({j \in 1..Committed : workingChain[j + 1] # workingChain[j]})
            <= Committed - rawChainInfo.numRejections
       /\ workingChain[Committed + 1] = currentPositionData.vec

(* C4: at every step i in [1,N), if a candidate was accepted, chain[i] is   *)
(* that candidate, it becomes the current position and numRejections is     *)
(* unchanged; otherwise chain[i] repeats chain[i-1], the current position   *)
(* is unchanged and numRejections increases by exactly 1; nothing else      *)
(* changes the chain, the current position or numRejections, so that        *)
(* numRejections counts the committed steps without an acceptance.          *)
C4_AcceptOrRepeat == [][C4_Commit]_vars /\ []C4_Count

\* a completed run with one accepted and one rejected step
C4_Witness ==
  /\ pc = "done"
  /\ opt.rawChainSize = 3
  /\ rawChainInfo.numRejections = 1
  /\ workingChain[3] # workingChain[1]

\* the run has ended: the loop is over, or a fatal error has aborted it
Ended == pc \in {"done", "fatal"}

\* the order of the steps, seen on one transition
C5_StepsInOrder ==
  /\ positionId' \in {positionId, positionId + 1}
  /\ positionId' = positionId + 1 =>
       \/ pc = "start"
       \/ pc = "am" /\ workingChain[positionId + 1] # Unwritten
  /\ pc = "commit" =>
       /\ positionId \in 1..(opt.rawChainSize - 1)
       /\ workingChain[positionId + 1] = Unwritten
       /\ workingChain[positionId] # Unwritten
  /\ pc' = "step" => positionId' < opt.rawChainSize
  /\ pc' = "done" => positionId' = opt.rawChainSize

\* the loop is left for good only after the step N-1
C5_AllStepsDone ==
  pc = "done" =>
    /\ positionId = opt.rawChainSize
    /\ \A j \in 1..opt.rawChainSize : workingChain[j] # Unwritten

InDR == pc \in {"drloop", "drdraw", "dreval"}

\* the guard of delayed rejection, seen on one transition
C6_Step ==
  /\ (/\ pc = "drgate"
      /\ ~(/\ accept = FALSE
           /\ outOfTargetSupport = FALSE
           /\ opt.drMaxNumExtraStages > 0
           /\ ~AvoidDRNow))
       => pc' = "commit"
  /\ (pc' \in {"drloop", "drdraw", "dreval"}) => (InDR \/ pc = "drgate")
  /\ ~InDR =>
       /\ rawChainInfo'.numDRs = rawChainInfo.numDRs
       /\ rawChainInfo'.numOutOfTargetSupportInDR =
            rawChainInfo.numOutOfTargetSupportInDR
  /\ pc \notin {"draw0", "drdraw"} => tmpVecValues' \in {tmpVecValues, "none"}

\* inside the extra stages the guard was passed by the stage-0 candidate
C6_Inside ==
  InDR =>
    /\ drPositionsData[2].out = FALSE
    /\ drPositionsData[1] = currentPositionData
    /\ opt.drMaxNumExtraStages > 0
    /\ ~AvoidDRNow

(* C6: at a step, extra stages of delayed rejection are attempted only if   *)
(* the stage-0 candidate was not accepted, it was in support,               *)
(* drMaxNumExtraStages > 0 and the 'avoid DR now' gate permits; in every    *)
(* other case the step goes from the stage-0 decision to the commit: numDRs *)
(* and numOutOfTargetSupportInDR are unchanged and no candidate is drawn.   *)
C6_DROnlyIfGuardPasses == [][C6_Step]_vars /\ []C6_Inside

\* a step that goes without delayed rejection because its stage-0 candidate
\* is out of support, although K > 0 and the gate permits
C6_Witness ==
  /\ pc = "commit"
  /\ tkStageIds = <<0, 0>>
  /\ outOfTargetSupport
  /\ accept = FALSE
  /\ opt.drMaxNumExtraStages > 0
  /\ ~AvoidDRNow
  /\ rawChainInfo.numDRs = 0

\* the gate of C7, as amended
C7_Gate ==
  /\ opt.drDuringAmNonAdaptiveInt = FALSE
  /\ opt.tkUseLocalHessian = FALSE
  /\ opt.amAdaptInterval > 0
  /\ positionId <= opt.amInitialNonAdaptInterval

C7_Step ==
  pc = "drgate" =>
    /\ C7_Gate => pc' = "commit"
    /\ (/\ ~C7_Gate
        /\ accept = FALSE
        /\ outOfTargetSupport = FALSE
        /\ opt.drMaxNumExtraStages > 0) => pc' = "drloop"

(* C7, as amended: whenever drDuringAmNonAdaptiveInt is false,              *)
(* tkUseLocalHessian is false, amAdaptInterval > 0 and the step index       *)
(* i <= amInitialNonAdaptInterval, delayed rejection is skipped at step i,  *)
(* for every value of the remaining options; delayed rejection is never     *)
(* skipped by the gate when one of these four conditions is false (in       *)
(* particular never with the Hessian TK).                                   *)
C7_GateOfScaledCovarianceTK == [][C7_Step]_vars

\* a rejected in-support stage-0 candidate whose step the gate keeps out of
\* delayed rejection
C7_Witness ==
  /\ pc = "commit"
  /\ tkStageIds = <<0, 0>>
  /\ accept = FALSE
  /\ outOfTargetSupport = FALSE
  /\ opt.drMaxNumExtraStages > 0
  /\ C7_Gate

\* C7 as stated: the gate skips delayed rejection whenever
\* drDuringAmNonAdaptiveInt is false, amAdaptInterval > 0 and
\* i <= amInitialNonAdaptInterval, for either TK variant
C7_GateForEitherTK ==
  (/\ opt.drDuringAmNonAdaptiveInt = FALSE
   /\ opt.amAdaptInterval > 0
   /\ positionId <= opt.amInitialNonAdaptInterval) => ~InDR

\* the decision of a Metropolis-Hastings loop with one candidate v per step
\* and uniform draw u, taken from the current position
PlainMHAccepts(v, u) ==
  /\ InDomain(v)
  /\ AcceptAlpha(AlphaXY([TK EXCEPT !.pre = [ClearedPositions EXCEPT
                                               ![0] = currentPositionData.vec,
                                               ![1] = v]],
                         currentPositionData, Evaluate(v, FALSE), 0, 1), u)

\* target evaluations a one-candidate-per-step loop may have made so far
C8_MaxTargetCalls ==
  CASE pc = "start" -> 0
    [] pc \in {"drgate", "commit", "am"} -> positionId + 1
    [] OTHER -> positionId

C8_State ==
  opt.drMaxNumExtraStages = 0 =>
    /\ rawChainInfo.numDRs = 0
    /\ rawChainInfo.numOutOfTargetSupportInDR = 0
    /\ ~InDR
    /\ rawChainInfo.numTargetCalls <= C8_MaxTargetCalls
    /\ pc \in {"drgate", "commit"} =>
         /\ currentCandidateData.vec = tmpVecValues
         /\ \E u \in UniformSamples : accept = PlainMHAccepts(tmpVecValues, u)

C8_Step ==
  (opt.drMaxNumExtraStages = 0 /\ pc = "commit") =>
    /\ workingChain'[positionId + 1] =
         IF accept THEN tmpVecValues ELSE workingChain[positionId]
    /\ rawChainInfo'.numRejections =
         rawChainInfo.numRejections + (IF accept THEN 0 ELSE 1)

(* C8: with drMaxNumExtraStages = 0 the sampler is plain                    *)
(* Metropolis-Hastings: the decision committed at each step is the one of a *)
(* one-candidate-per-step loop on the same proposal and uniform draw, so    *)
(* are the chain and numRejections; numDRs and numOutOfTargetSupportInDR    *)
(* stay 0 and at most one target evaluation is made per step.               *)
C8_PlainMetropolisHastings == []C8_State /\ [][C8_Step]_vars

\* a completed run without delayed rejection, with an accepted and a
\* rejected step
C8_Witness ==
  /\ pc = "done"
  /\ opt.drMaxNumExtraStages = 0
  /\ opt.rawChainSize = MaxChainSize
  /\ rawChainInfo.numRejections = 1
  /\ rawChainInfo.numTargetCalls = MaxChainSize
  /\ workingChain[MaxChainSize] # workingChain[1]

\* the position records alpha(x,y) may be handed
C9_Positions ==
  {PositionData(v, o, RawLogLikelihood(v), FromRaw(opt.expectsLn, RawTarget(v))) :
     v \in Points, o \in BOOLEAN}

\* alpha(x,y) and its unclamped quotient on the positions of C9
C9_AlphaIsZero ==
  pc = "start" =>
    \A x \in C9_Positions, y \in C9_Positions :
      (x.out \/ y.out \/ ~IsFinite(x.lt) \/ ~IsFinite(y.lt)) =>
        /\ AlphaXY(TK, x, y, 0, 1) = Zero
        /\ AlphaQuotient(TK, x, y, 0, 1) = Zero

\* the stage-0 evaluation of a candidate with a non-finite log-target
C9_Step ==
  (/\ pc = "eval0"
   /\ outOfTargetSupport = FALSE
   /\ IsFinite(currentPositionData.lt)
   /\ ~IsFinite(FromRaw(opt.expectsLn, RawTarget(tmpVecValues)))) =>
    /\ accept' = FALSE
    /\ rawChainInfo'.numTargetCalls = rawChainInfo.numTargetCalls + 1
    /\ pc' = "drgate"
    /\ fatal' = ""
    /\ currentPositionData' = currentPositionData

(* C9: alpha(x,y) returns 0, with unclamped quotient 0, whenever x or y is  *)
(* out of support or the log-target of x or of y is +inf, -inf or NaN, and  *)
(* does not abort; so a candidate whose evaluated log-target is NaN or      *)
(* infinite, proposed from a current point with finite log-target, is       *)
(* rejected at that stage, numTargetCalls has been incremented for it, and  *)
(* the step goes on.                                                        *)
C9_NonFiniteGivesAlphaZero == []C9_AlphaIsZero /\ [][C9_Step]_vars

\* a step committed as a rejection after its last candidate evaluated to an
\* infinite log-target
C9_Witness ==
  /\ pc = "am"
  /\ currentCandidateData.vec = "inf"
  /\ currentCandidateData.out = FALSE
  /\ IsFinite(currentPositionData.lt)
  /\ rawChainInfo.numRejections >= 1
  /\ rawChainInfo.numTargetCalls >= 2

\* the log-target the evaluator gives at v is NaN
NaNAt(v) == IsNaN(FromRaw(opt.expectsLn, RawTarget(v)))

\* the evaluation of an in-support point where the log-target is NaN
C10_Step ==
  /\ (pc = "start" /\ InDomain(opt.initialPosition) /\ NaNAt(opt.initialPosition)) =>
       /\ pc' \in {"step", "done"}
       /\ fatal' = ""
       /\ rawChainInfo'.numTargetCalls = 1
       /\ IsNaN(currentPositionData'.lt)
       /\ workingChain'[1] = opt.initialPosition
  /\ (pc \in {"eval0", "dreval"} /\ outOfTargetSupport = FALSE /\ NaNAt(tmpVecValues)) =>
       /\ pc' \in {"drgate", "drloop"}
       /\ fatal' = ""
       /\ rawChainInfo'.numTargetCalls = rawChainInfo.numTargetCalls + 1
       /\ IsNaN(currentCandidateData'.lt)
       /\ accept' = FALSE

\* nothing is accepted from a current position whose log-target is NaN
C10_State ==
  IsNaN(currentPositionData.lt) =>
    /\ accept = FALSE
    /\ currentPositionData.vec = opt.initialPosition

(* C10, as amended: a NaN log-target returned by the evaluator at an        *)
(* in-support point raises no failure: the evaluation is counted and the    *)
(* NaN is kept as the log-target of the point; a candidate with it is       *)
(* rejected at its stage (stage 0 or an extra stage), an initial point with *)
(* it becomes chain position 0 and every later candidate is rejected; the   *)
(* generation goes on.                                                      *)
C10_NaNTargetIsNotAFailure == [][C10_Step]_vars /\ []C10_State

\* an extra-stage candidate with a NaN log-target, rejected, and the step
\* committed
C10_Witness ==
  /\ pc = "am"
  /\ stageId >= 1
  /\ currentCandidateData.vec = "nan"
  /\ currentCandidateData.out = FALSE
  /\ workingChain[positionId + 1] = workingChain[positionId]

\* C10 as stated: the generation does not go past an evaluation that
\* returned a NaN log-target at an in-support point
C10_NaNTargetStopsGeneration ==
  \A d \in {currentPositionData, currentCandidateData} :
    (d.vec # "none" /\ d.out = FALSE /\ IsNaN(d.lt)) => pc = "fatal"

\* an adaptation event is due at the position being completed
AdaptationEvent == pc = "am" /\ AMEnabled /\ PartialChainSize(positionId) > 0

\* the adaptation event now ending was skipped: both Cholesky attempts on the
\* matrix it adapted reported 'not positive definite'
C11_SkippedAdaptation ==
  /\ AdaptationEvent
  /\ pc' # "fatal"
  /\ ~CholAttempts(lastAdaptedCovMatrix').positiveDefinite

\* the evaluation now being made of an in-support candidate ends in an alpha
\* forced to 0 by a non-finite log-target
C11_ForcedAlpha ==
  /\ pc \in {"eval0", "dreval"}
  /\ outOfTargetSupport = FALSE
  /\ \/ NonFiniteLogTarget(currentPositionData.lt)
     \/ NonFiniteLogTarget(FromRaw(opt.expectsLn, RawTarget(tmpVecValues)))

\* C11 as stated: every recoverable condition is counted in run-info: an
\* alpha forced to 0 by a non-finite log-target increments some counter
\* besides the numTargetCalls every evaluation increments, and an adaptation
\* event skipped after two failed Cholesky attempts increments some counter
C11_RecoverableConditionsCounted ==
  [][/\ C11_ForcedAlpha =>
          rawChainInfo' # [rawChainInfo EXCEPT !.numTargetCalls = @ + 1]
     /\ C11_SkippedAdaptation => rawChainInfo' # rawChainInfo]_vars

\* stage-0 candidates retained and processed so far (one per step)
Stage0Candidates ==
  IF pc \in {"drgate", "drloop", "drdraw", "dreval", "commit", "am"}
  THEN positionId ELSE positionId - 1

\* extra-stage candidates retained and processed so far (one per stage begun)
DRCandidates ==
  IF pc \in {"drdraw", "dreval"}
  THEN rawChainInfo.numDRs - 1 ELSE rawChainInfo.numDRs

\* the calls of the target evaluator, seen on one transition
C12_Step ==
  /\ pc = "start" =>
       rawChainInfo'.numTargetCalls = IF InDomain(opt.initialPosition) THEN 1 ELSE 0
  /\ pc \in {"eval0", "dreval"} =>
       IF ~InDomain(tmpVecValues)
       THEN /\ rawChainInfo'.numTargetCalls = rawChainInfo.numTargetCalls
            /\ currentCandidateData' = PositionData(tmpVecValues, TRUE, NInf, NInf)
       ELSE /\ rawChainInfo'.numTargetCalls = rawChainInfo.numTargetCalls + 1
            /\ currentCandidateData'.out = FALSE
            /\ currentCandidateData'.lt =
                 FromRaw(opt.expectsLn, RawTarget(tmpVecValues))
  /\ pc \notin {"start", "eval0", "dreval"} =>
       rawChainInfo'.numTargetCalls = rawChainInfo.numTargetCalls

\* the calls made so far against the candidates retained so far
C12_Count ==
  /\ pc \notin {"start", "fatal"} =>
       rawChainInfo.numTargetCalls =
         1 + (Stage0Candidates + DRCandidates)
           - (rawChainInfo.numOutOfTargetSupport
              + rawChainInfo.numOutOfTargetSupportInDR)
  /\ \A j \in 1..Len(drPositionsData) :
       drPositionsData[j].out =>
         drPositionsData[j].lt = NInf /\ drPositionsData[j].ll = NInf
  /\ currentCandidateData.out =>
       currentCandidateData.lt = NInf /\ currentCandidateData.ll = NInf

(* C12: the target evaluator is called exactly once for the initial         *)
(* position and exactly once for each retained in-support candidate (stage  *)
(* 0 or extra stage), never for an out-of-support candidate, which gets     *)
(* logLikelihood = logTarget = -INFINITY; so numTargetCalls is always 1     *)
(* plus the number of in-support candidates retained so far.                *)
C12_OneCallPerInSupportCandidate == [][C12_Step]_vars /\ []C12_Count

\* a completed run that retained in-support and out-of-support candidates,
\* at stage 0 and at an extra stage
C12_Witness ==
  /\ pc = "done"
  /\ rawChainInfo.numOutOfTargetSupport >= 1
  /\ rawChainInfo.numOutOfTargetSupportInDR >= 1
  /\ rawChainInfo.numTargetCalls >= 3

\* a completed run without delayed rejection and without adaptation, every
\* realization of which was in support
C13_PlainRun ==
  /\ pc = "done"
  /\ opt.drMaxNumExtraStages = 0
  /\ ~AMEnabled
  /\ outOfSupportDraws = 0

(* C13, as amended: with K = 0, AM off and every proposal in support,       *)
(* generating a chain of size N makes N target evaluations (the initial     *)
(* point plus the N-1 proposals of the steps 1..N-1) and leaves             *)
(* numRejections in [0, N-1].                                               *)
C13_TargetCallsOfPlainRun ==
  C13_PlainRun =>
    /\ rawChainInfo.numTargetCalls = opt.rawChainSize
    /\ rawChainInfo.numRejections \in 0..(opt.rawChainSize - 1)

\* a plain run of full length, with every step but one rejected
C13_Witness ==
  /\ C13_PlainRun
  /\ opt.rawChainSize = MaxChainSize
  /\ rawChainInfo.numRejections = MaxChainSize - 2

\* C13 as stated: such a run makes N + 1 target evaluations and leaves
\* numRejections in [0, N]
C13_OneCallMoreThanPositions ==
  C13_PlainRun =>
    /\ rawChainInfo.numTargetCalls = opt.rawChainSize + 1
    /\ rawChainInfo.numRejections \in 0..opt.rawChainSize

\* numOutOfTargetSupport + numOutOfTargetSupportInDR
OutOfSupportCounted ==
  rawChainInfo.numOutOfTargetSupport + rawChainInfo.numOutOfTargetSupportInDR

\* whether n is the number of realizations drawn out of support, as far as
\* the history variable counts them
IsNumberOfOutOfSupportDraws(n) ==
  IF outOfSupportDraws < MaxDraws THEN n = outOfSupportDraws ELSE n >= MaxDraws

C15_PlainSymmetric ==
  /\ opt.drMaxNumExtraStages = 0
  /\ ~AMEnabled
  /\ TKSymmetric(TK)

\* finite log-targets: far apart, one apart, closer than the resolution of
\* Exp, equal
C15_LogTargets == {Fin(-2000, 1), Fin(-1, 1), Fin(-1, 2), Zero, Fin(2, 1)}

\* in-support positions with these log-targets
C15_Positions ==
  {PositionData(v, FALSE, Zero, lt) : v \in {"a", "b"}, lt \in C15_LogTargets}

\* min(1, exp(log_target(y) - log_target(x)))
C15_Ratio(x, y) == StdMin(One, Exp(Sub(y.lt, x.lt)))

\* the stage-0 acceptance of the driver is decided on C15_Ratio
C15_Step ==
  /\ pc = "eval0" /\ C15_PlainSymmetric
  /\ outOfTargetSupport = FALSE /\ currentPositionData.out = FALSE
  /\ ~NonFiniteLogTarget(currentPositionData.lt)
  /\ ~NonFiniteLogTarget(FromRaw(opt.expectsLn, RawTarget(tmpVecValues)))
  => \E u \in UniformSamples :
       accept' = AcceptAlpha(C15_Ratio(currentPositionData,
                                       Evaluate(tmpVecValues, FALSE)), u)

C15_Function ==
  pc = "eval0" /\ C15_PlainSymmetric =>
    \A x \in C15_Positions, y \in C15_Positions :
      \A xStageId \in 0..MaxStages, yStageId \in 0..MaxStages :
        \E al \in {AlphaXY(TK, x, y, xStageId, yStageId)} :
          /\ al = C15_Ratio(x, y)
          /\ LessEq(Zero, al) /\ LessEq(al, One)
          /\ GreaterEq(y.lt, x.lt) => al = One

C15_FunctionAsStated ==
  pc = "eval0" /\ C15_PlainSymmetric =>
    \A x \in C15_Positions, y \in C15_Positions :
      \A xStageId \in 0..MaxStages, yStageId \in 0..MaxStages :
        \E al \in {AlphaXY(TK, x, y, xStageId, yStageId)} :
          /\ al = C15_Ratio(x, y)
          /\ Less(Zero, al) /\ LessEq(al, One)
          /\ GreaterEq(y.lt, x.lt) <=> al = One

(* C15, as amended: with DR off, AM off and a symmetric TK, for every pair  *)
(* of in-support positions x (current) and y (candidate) with finite        *)
(* log-targets the acceptance ratio the driver uses is                      *)
(* min(1, exp(log_target(y) - log_target(x))) as std::exp computes it; it   *)
(* is 1 whenever log_target(y) >= log_target(x), it lies in [0,1] (0 where  *)
(* exp underflows), and it depends neither on the stage ids nor on the      *)
(* proposal density.                                                        *)
C15_SymmetricRatio == [][C15_Step]_vars /\ []C15_Function

\* a stage-0 candidate of lower log-target accepted on the ratio
C15_Witness ==
  /\ pc = "drgate" /\ C15_PlainSymmetric
  /\ currentPositionData.out = FALSE /\ currentCandidateData.out = FALSE
  /\ ~NonFiniteLogTarget(currentPositionData.lt)
  /\ ~NonFiniteLogTarget(currentCandidateData.lt)
  /\ Less(currentCandidateData.lt, currentPositionData.lt)
  /\ accept = TRUE

\* C15 as stated: the ratio is min(1, exp(log_target(y) - log_target(x))),
\* it is 1 exactly when log_target(y) >= log_target(x), it lies in (0,1]
\* always, and it depends neither on the stage ids nor on the proposal
\* density
C15_SymmetricRatioInHalfOpenInterval ==
  [][C15_Step]_vars /\ []C15_FunctionAsStated

\* the scaled-covariance TK with I >= 1 and A >= 1
C16_Adaptive ==
  /\ opt.tkUseLocalHessian = FALSE
  /\ opt.amInitialNonAdaptInterval >= 1
  /\ opt.amAdaptInterval >= 1

\* what the adaptive Metropolis step of position i does to the AM state
C16_Step ==
  pc = "am" /\ C16_Adaptive =>
    LET i == positionId
        I == opt.amInitialNonAdaptInterval
        A == opt.amAdaptInterval
    IN  /\ pc' # "fatal"
        /\ IF i < I THEN UNCHANGED amVars
           ELSE IF i = I
           THEN /\ lastChainSize = 0
                /\ lastMean = NullVector /\ lastAdaptedCovMatrix = NullMatrix
                /\ lastChainSize' = I + 1
                /\ lastMean' =
                     SubMeanPlain([k \in 1..(I + 1) |-> Coordinates(workingChain[k])])
                /\ lastAdaptedCovMatrix' # NullMatrix
           ELSE IF (i - I) % A = 0
           THEN /\ lastChainSize > 0
                /\ lastChainSize' = lastChainSize + A
           ELSE UNCHANGED amVars

\* the seed has happened exactly when the step I is over
C16_Seeded ==
  C16_Adaptive =>
    /\ lastChainSize = 0 <=> positionId <= opt.amInitialNonAdaptInterval
    /\ lastChainSize = 0 <=> lastMean = NullVector
    /\ lastChainSize = 0 <=> lastAdaptedCovMatrix = NullMatrix

(* C16: with the scaled-covariance TK, I >= 1 and A >= 1, no adaptation     *)
(* event occurs at a step i < I; the one seed event occurs at step i = I,   *)
(* consumes the chain positions of indices 0..I and allocates last_mean and *)
(* last_cov; update events occur exactly at the steps i > I with            *)
(* (i - I) mod A = 0; no adaptation event occurs at any other step.         *)
C16_Schedule == [][C16_Step]_vars /\ []C16_Seeded

\* a run with a seed event and an update event after it
C16_Witness ==
  /\ pc = "done" /\ C16_Adaptive
  /\ lastChainSize = opt.amInitialNonAdaptInterval + 1 + opt.amAdaptInterval

\* an update event: a scheduled step after the seed
C17_UpdateEvent ==
  /\ pc = "am" /\ C16_Adaptive
  /\ positionId > opt.amInitialNonAdaptInterval
  /\ (positionId - opt.amInitialNonAdaptInterval) % opt.amAdaptInterval = 0

\* the AM state with the chain positions of indices first..last folded in,
\* each with its own index
C17_Folded(first, last) ==
  FoldPositions([k \in 1..(last - first + 1) |-> Coordinates(workingChain[first + k])],
                first, 1,
                [fatal |-> "", size |-> lastChainSize, mean |-> lastMean,
                 cov |-> lastAdaptedCovMatrix])

\* C17 as stated: at an update event at step i the AM update folds exactly
\* the chain positions of indices i-A+1 .. i, each with its own global chain
\* index j in the ratios r1 = 1 - 1/j and r2 = 1/(j+1)
C17_FoldsMostRecentPositions ==
  [][C17_UpdateEvent =>
       \E am \in {C17_Folded(positionId - opt.amAdaptInterval + 1, positionId)} :
         lastMean' = am.mean /\ lastAdaptedCovMatrix' = am.cov]_vars

\* what the code folds: the indices i-A .. i-1
C17_FoldsOnePositionBehind ==
  [][C17_UpdateEvent =>
       \E am \in {C17_Folded(positionId - opt.amAdaptInterval, positionId - 1)} :
         lastMean' = am.mean /\ lastAdaptedCovMatrix' = am.cov]_vars

\* the step i is on the schedule of I and A > 0: the seed step or an update step
C18_Scheduled(i) ==
  \/ i = opt.amInitialNonAdaptInterval
  \/ /\ i > opt.amInitialNonAdaptInterval
     /\ (i - opt.amInitialNonAdaptInterval) % opt.amAdaptInterval = 0

\* with A = 0 (or I = 0, or the Hessian TK) no step touches the TK
\* covariance or the AM state, and the AM step goes on to the next position
C18_Disabled ==
  \/ opt.tkUseLocalHessian
  \/ opt.amAdaptInterval = 0
  \/ opt.amInitialNonAdaptInterval = 0

C18_Step ==
  /\ C18_Disabled => /\ UNCHANGED amVars
                     /\ pc = "am" => pc' # "fatal"
  /\ /\ ~C18_Disabled
     /\ pc = "am" /\ C18_Scheduled(positionId)
     => lastChainSize' > lastChainSize

(* C18, as amended: adaptation is disabled exactly when am_adapt_interval   *)
(* = 0 or am_initial_non_adapt_interval = 0 (or the Hessian TK is           *)
(* selected): for the scaled-covariance TK, any am_adapt_interval > 0 and   *)
(* any am_initial_non_adapt_interval > 0 adaptation events occur according  *)
(* to the schedule; and with am_adapt_interval = 0 or                       *)
(* am_initial_non_adapt_interval = 0 the TK covariance and the AM state are *)
(* never touched.                                                           *)
C18_DisabledExactlyWithoutIntervals == [][C18_Step]_vars

\* a completed run of several positions with I = 0 and A > 0: nothing adapted
C18_Witness ==
  /\ pc = "done" /\ positionId >= 3
  /\ opt.tkUseLocalHessian = FALSE
  /\ opt.amInitialNonAdaptInterval = 0 /\ opt.amAdaptInterval > 0
  /\ lastChainSize = 0 /\ lastMean = NullVector
  /\ tkCovMatrix = InitialProposalCovMatrix

\* C18 as stated: with the scaled-covariance TK and A > 0 adaptation events
\* occur according to the schedule for every I, 0 included; with A = 0 the
\* TK covariance and the AM state are never touched
C18_DisabledExactlyWithoutAdaptInterval ==
  [][/\ opt.amAdaptInterval = 0 => UNCHANGED amVars
     /\ /\ opt.tkUseLocalHessian = FALSE /\ opt.amAdaptInterval > 0
        /\ pc = "am" /\ C18_Scheduled(positionId)
        => lastChainSize' > lastChainSize]_vars

\* the chain indices the adaptation event of this step reads
C19_ReadIndices ==
  {IdOfFirstPositionInSubChain(positionId) + k :
     k \in 0..(PartialChainSize(positionId) - 1)}

(* C19: every chain position read by an adaptation event executed at step *)
(* i has index <= i and was written to the chain buffer before the event   *)
(* ran; the commit of position i precedes the adaptation event of step i,  *)
(* and no adaptation event reads an unwritten position.                    *)
C19_CommittedBeforeRead ==
  /\ pc = "am" =>
       \A j \in 0..(Len(workingChain) - 1) :
         workingChain[j + 1] # Unwritten <=> j <= positionId
  /\ AdaptationEvent =>
       \A j \in C19_ReadIndices :
         /\ j <= positionId
         /\ workingChain[j + 1] # Unwritten

\* an adaptation event about to read the position its own step committed
C19_Witness ==
  /\ AdaptationEvent
  /\ positionId \in C19_ReadIndices
  /\ positionId >= 2

\* the adapted matrix with the ridge am_epsilon * I added
C20_Ridged(cov) == MatAdd(cov, DiagMatrix(opt.amEpsilon))

\* both Cholesky attempts on cov report not-positive-definite
C20_BothFail(cov) ==
  /\ Chol(cov) = UQ_MATRIX_IS_NOT_POS_DEFINITE_RC
  /\ Chol(C20_Ridged(cov)) = UQ_MATRIX_IS_NOT_POS_DEFINITE_RC

\* the TK covariance changes at adaptation events whose Cholesky check
\* succeeds, to what the event installs, and nowhere else
C20_Step ==
  IF AdaptationEvent
  THEN \E cov \in {lastAdaptedCovMatrix'} :
         IF Chol(cov) = UQ_OK_RC
         THEN tkCovMatrix' = MatScale(opt.amEta, cov)
         ELSE IF Chol(C20_Ridged(cov)) = UQ_OK_RC
         THEN tkCovMatrix' = MatScale(opt.amEta, C20_Ridged(cov))
         ELSE /\ tkCovMatrix' = tkCovMatrix
              /\ fatal' = "" /\ pc' \in {"step", "done"}
              /\ positionId' = positionId + 1
  ELSE tkCovMatrix' = tkCovMatrix

\* before the first adaptation event the TK has the initial covariance
C20_Initial ==
  lastChainSize = 0 => tkCovMatrix = InitialProposalCovMatrix

(* C20: at every step the TK's base covariance is the one installed by the *)
(* most recent adaptation event whose Cholesky check succeeded (first       *)
(* attempt or ridge attempt), or the initial covariance if none succeeded   *)
(* yet; an adaptation event in which both Cholesky attempts report          *)
(* not-positive-definite leaves the TK covariance unchanged, raises no      *)
(* error, and sampling continues.                                           *)
C20_CovarianceOfLastSuccess == [][C20_Step]_vars /\ []C20_Initial

\* a run that went on after an adaptation event whose two attempts failed,
\* the TK still having its initial covariance
C20_Witness ==
  /\ pc = "done" /\ fatal = ""
  /\ lastChainSize > 0
  /\ positionId >= opt.amInitialNonAdaptInterval + 2
  /\ C20_BothFail(lastAdaptedCovMatrix)
  /\ tkCovMatrix = InitialProposalCovMatrix

\* an adaptation event whose first Cholesky attempt fails and whose ridge
\* attempt succeeds, on the adapted matrix the event leaves
C21_RidgeEvent ==
  /\ AdaptationEvent
  /\ Chol(lastAdaptedCovMatrix') = UQ_MATRIX_IS_NOT_POS_DEFINITE_RC
  /\ Chol(C20_Ridged(lastAdaptedCovMatrix')) = UQ_OK_RC

\* an adaptation event whose first Cholesky attempt succeeds
C21_PlainEvent ==
  /\ AdaptationEvent
  /\ Chol(lastAdaptedCovMatrix') = UQ_OK_RC

(* C21, as amended: after a successful proposal-covariance refresh the TK's *)
(* base covariance is eta * last_cov when the first Cholesky attempt        *)
(* succeeds, and eta * (last_cov + epsilon*I) when only the ridge attempt   *)
(* succeeds; in the ridge case the covariance is updated and no error is    *)
(* surfaced.                                                                *)
C21_InstalledCovariance ==
  [][/\ C21_PlainEvent =>
          tkCovMatrix' = MatScale(opt.amEta, lastAdaptedCovMatrix')
     /\ C21_RidgeEvent =>
          /\ tkCovMatrix' =
               MatScale(opt.amEta, C20_Ridged(lastAdaptedCovMatrix'))
          /\ fatal' = "" /\ pc' # "fatal"]_vars

\* the TK after a refresh whose ridge attempt succeeded: it has the ridged
\* matrix, which differs from the adapted one
C21_Witness ==
  /\ pc \in {"step", "done"} /\ lastChainSize > 0
  /\ Chol(lastAdaptedCovMatrix) = UQ_MATRIX_IS_NOT_POS_DEFINITE_RC
  /\ Chol(C20_Ridged(lastAdaptedCovMatrix)) = UQ_OK_RC
  /\ tkCovMatrix = MatScale(opt.amEta, C20_Ridged(lastAdaptedCovMatrix))
  /\ tkCovMatrix # MatScale(opt.amEta, lastAdaptedCovMatrix)

\* C21 as stated: after a successful refresh the TK's base covariance is
\* eta * last_cov, on the first attempt and on the ridge attempt alike, and
\* the ridge case surfaces no error
C21_InstalledIsScaledLastCov ==
  [][/\ C21_PlainEvent \/ C21_RidgeEvent =>
          tkCovMatrix' = MatScale(opt.amEta, lastAdaptedCovMatrix')
     /\ C21_RidgeEvent => fatal' = "" /\ pc' # "fatal"]_vars

(* C22: after the seed event and after every incremental AM update,        *)
(* last_cov is symmetric: last_cov[a][b] = last_cov[b][a] for all a, b,     *)
(* whatever chain positions were folded.                                    *)
C22_LastCovSymmetric ==
  lastAdaptedCovMatrix # NullMatrix =>
    \A a \in Dim, b \in Dim :
      lastAdaptedCovMatrix[a][b] = lastAdaptedCovMatrix[b][a]

\* after a seed and an update, an adapted matrix with correlation
C22_Witness ==
  /\ lastChainSize > opt.amInitialNonAdaptInterval + 1
  /\ lastAdaptedCovMatrix # NullMatrix
  /\ lastAdaptedCovMatrix[1][2] # Zero

\* between two steps: position positionId - 1 committed, the next step not
\* begun
C24_BetweenSteps == pc = "step"

(* C24, as amended: between two steps, after step i has committed and       *)
(* before step i+1 starts, the chain buffer has the length N it was given   *)
(* before position 0 was written; its entries 0..i are the i+1 committed    *)
(* positions, and its entries i+1..N-1 are not yet written.                 *)
C24_CommittedPrefix ==
  C24_BetweenSteps =>
    /\ Len(workingChain) = opt.rawChainSize
    /\ \A j \in 0..(opt.rawChainSize - 1) :
         workingChain[j + 1] # Unwritten <=> j < positionId
    /\ workingChain[positionId] = currentPositionData.vec

\* between the steps 1 and 2 of a chain of more than two positions
C24_Witness ==
  /\ C24_BetweenSteps
  /\ positionId = 2
  /\ Len(workingChain) > 2

\* C24 as stated: between two steps, after step i has committed, the chain
\* has length i+1: the buffer contains exactly the i+1 committed positions
\* and nothing else
C24_LengthIsCommitted ==
  C24_BetweenSteps =>
    /\ Len(workingChain) = positionId
    /\ \A j \in 1..Len(workingChain) : workingChain[j] # Unwritten

\* the candidate about to be evaluated is one the TK reports as an invalid
\* pre-computing position
C25_InvalidCandidate ==
  /\ pc \in {"eval0", "dreval"}
  /\ ~TKValidAt(opt.tkUseLocalHessian, tmpVecValues)

\* after an invalid candidate no further DR stage is attempted in the step
C25_NoFurtherStage ==
  /\ pc \in {"drgate", "drloop"}
  /\ validPreComputingPosition = FALSE
  => /\ rawChainInfo'.numDRs = rawChainInfo.numDRs
     /\ pc = "drloop" => pc' = "commit"

\* an invalid candidate is not accepted
C25_NotAccepted == C25_InvalidCandidate => accept' = FALSE

\* the step of an invalid candidate commits a rejection
C25_CommitsRejection ==
  pc = "commit" /\ validPreComputingPosition = FALSE =>
    /\ rawChainInfo'.numRejections = rawChainInfo.numRejections + 1
    /\ currentPositionData' = currentPositionData

\* C25 as stated: if the TK returns valid = false for the candidate of a DR
\* stage or of stage 0, that candidate is not accepted, no further DR stage
\* is attempted in the step, and the step commits a rejection
C25_InvalidCandidateRejected ==
  [][C25_NotAccepted /\ C25_NoFurtherStage /\ C25_CommitsRejection]_vars

\* the part of C25 the code keeps: no further DR stage
C25_InvalidCandidateEndsDR == [][C25_NoFurtherStage]_vars


(***************************************************************************)
(* C26: dimension and null-covariance tests of the constructors            *)
(***************************************************************************)
C26_InitialPositionMismatch(s) == s.initialPositionSize # SpaceDimension

C26_CovMatrixMismatch(s) ==
  /\ s.inputProposalCovMatrix # NullCovMatrix
  /\ \/ NumRows(s.inputProposalCovMatrix) # NumCols(s.inputProposalCovMatrix)
     \/ NumRows(s.inputProposalCovMatrix) # SpaceDimension

C26_NullWithoutHessian(s) ==
  /\ s.inputProposalCovMatrix = NullCovMatrix
  /\ s.initialProposalCovMatrixDataInputFileName = "."
  /\ ~s.tkUseLocalHessian

C26_MustFail(s) ==
  \/ C26_InitialPositionMismatch(s)
  \/ C26_CovMatrixMismatch(s)
  \/ C26_NullWithoutHessian(s)

C26_NullWithHessian(s) ==
  /\ s.inputProposalCovMatrix = NullCovMatrix
  /\ s.tkUseLocalHessian
  /\ ~C26_InitialPositionMismatch(s)

C26_Step ==
  pc = "new" =>
    /\ C26_MustFail(opt) => pc' = "fatal"
    /\ C26_NullWithHessian(opt) => pc' = "start"

\* C26: construction through either constructor ends in a fatal test when the
\* initial position's size differs from the space dimension, when a supplied
\* proposal covariance matrix is not square or not of that dimension, or when
\* the matrix is null, no covariance input file is named and the local-Hessian
\* kernel is off; a null matrix is accepted when the local-Hessian kernel is on
C26_ConstructionFailsOnMismatch == [][C26_Step]_vars

\* the same of constructor 1 alone
C26_Constructor1Step == (pc = "new" /\ opt.constructor = 1) => C26_Step
C26_Constructor1FailsOnMismatch == [][C26_Constructor1Step]_vars


(***************************************************************************)
(* C27: the propose step and put_out_of_bounds_in_chain                    *)
(***************************************************************************)
C27_Drawing == pc \in {"draw0", "drdraw"}
C27_Evaluating == pc \in {"eval0", "dreval"}

\* with the option off: the candidate handed to the evaluation is in support
\* and neither out-of-support counter ever leaves 0
C27_Redrawn ==
  ~opt.putOutOfBoundsInChain =>
    /\ C27_Evaluating => InDomain(tmpVecValues) /\ outOfTargetSupport = FALSE
    /\ rawChainInfo.numOutOfTargetSupport = 0
    /\ rawChainInfo.numOutOfTargetSupportInDR = 0

\* one pass of a draw loop: with the option off an out-of-support draw is
\* followed by another pass; with the option on the pass is the only one;
\* the draw that leaves the loop is the candidate evaluated
C27_Step ==
  /\ (C27_Drawing /\ ~opt.putOutOfBoundsInChain /\ ~InDomain(tmpVecValues')) =>
       pc' = pc
  /\ (C27_Drawing /\ opt.putOutOfBoundsInChain) =>
       /\ pc' = (IF pc = "draw0" THEN "eval0" ELSE "dreval")
       /\ outOfTargetSupport' = ~InDomain(tmpVecValues')
  /\ (C27_Evaluating /\ opt.putOutOfBoundsInChain) =>
       /\ currentCandidateData'.vec = tmpVecValues
       /\ currentCandidateData'.out = ~InDomain(tmpVecValues)

\* C27: with put_out_of_bounds_in_chain false the draw of stage 0 and of every
\* DR stage is repeated until it lies in support, so the candidate evaluated
\* is in support and both out-of-support counters stay 0; with the option true
\* one draw is made per stage and an out-of-support draw is that stage's
\* candidate
C27_ProposeStep == [][C27_Step]_vars /\ []C27_Redrawn

\* a finished run with the option off in which draws fell out of support at
\* stage 0 or in the extra stages that were run
C27_Witness ==
  /\ pc = "done"
  /\ ~opt.putOutOfBoundsInChain
  /\ outOfSupportDraws >= 2
  /\ rawChainInfo.numDRs >= 1


(***************************************************************************)
(* C29: the loop of the delayed-rejection stages                           *)
(***************************************************************************)
C29_LoopRuns ==
  /\ accept = FALSE
  /\ validPreComputingPosition = TRUE
  /\ stageId < opt.drMaxNumExtraStages

\* the test of the loop: a stage is attempted exactly when the test holds, and
\* an attempted stage adds one to numDRs
C29_LoopStep ==
  pc = "drloop" =>
    IF C29_LoopRuns
    THEN /\ pc' = "drdraw"
         /\ stageId' = stageId + 1
         /\ rawChainInfo'.numDRs = rawChainInfo.numDRs + 1
    ELSE /\ pc' = "commit"
         /\ stageId' = stageId
         /\ rawChainInfo'.numDRs = rawChainInfo.numDRs

\* numDRs changes nowhere else
C29_OtherStep ==
  pc \notin {"drloop", "start"} => rawChainInfo'.numDRs = rawChainInfo.numDRs

\* the lists handed to alpha(vec) in the extra stage stageId
C29_AcceptanceStep ==
  pc = "dreval" =>
    /\ stageId \in 1..opt.drMaxNumExtraStages
    /\ Len(drPositionsData') = stageId + 2
    /\ drPositionsData'[1] = currentPositionData
    /\ drPositionsData'[stageId + 2] = currentCandidateData'
    /\ \A j \in 1..(stageId + 2) :
         drPositionsData'[j].vec = preComputingPositions'[j - 1]
    /\ tkStageIds' = [j \in 1..(stageId + 2) |-> j - 1]
    /\ \A id \in DOMAIN preComputingPositions' :
         (preComputingPositions'[id] # "none") <=> (id <= stageId + 1)

C29_Bounded ==
  /\ stageId <= opt.drMaxNumExtraStages
  /\ rawChainInfo.numDRs <= opt.drMaxNumExtraStages * (opt.rawChainSize - 1)

\* C29: the stage loop runs while the step is not accepted, the last
\* pre-computing position was valid and stageId is below the maximum number of
\* extra stages; at most that many stages are attempted per step, each adds
\* exactly one to numDRs, and numDRs never exceeds the maximum times the
\* number of steps; when the acceptance of extra stage k is computed the
\* position list is the current position followed by the k+1 candidates of the
\* step, the stage-id list is 0..k+1 and the TK holds exactly the
\* pre-computing positions of local ids 0..k+1
C29_StageLoop ==
  [][C29_LoopStep /\ C29_OtherStep /\ C29_AcceptanceStep]_vars /\ []C29_Bounded

\* the acceptance of the last of two extra stages has been computed
C29_Witness ==
  /\ pc = "drloop"
  /\ stageId = MaxStages
  /\ opt.drMaxNumExtraStages = MaxStages
  /\ outOfTargetSupport = FALSE
  /\ Len(drPositionsData) = MaxStages + 2
  /\ rawChainInfo.numDRs >= MaxStages + 1


(***************************************************************************)
(* C30: alphasDenominator when the quotient of alpha(vec) is formed        *)
(***************************************************************************)
\* the acceptance of an extra stage has just been computed by alpha(vec)
C30_AlphaComputed ==
  /\ pc = "drloop"
  /\ outOfTargetSupport = FALSE
  /\ Len(drPositionsData) >= 3

C30_Denominator(inv) == AlphaVecCumulated(TK, inv.pos, inv.ids).alphasDen

\* C30: in every invocation of alpha(vec) reachable from generateFullChain, the
\* call for an extra stage and every call nested in it on forward and backward
\* prefixes, alphasDenominator is strictly positive when the final quotient is
\* formed
C30_DenominatorPositive ==
  C30_AlphaComputed =>
    \A inv \in AlphaInvocations(TK, drPositionsData, tkStageIds) :
      Less(Zero, C30_Denominator(inv))

\* the same of the calls on the positions in their order of generation (the
\* call for the stage and the calls nested on forward prefixes only)
C30_ForwardDenominatorPositive ==
  C30_AlphaComputed =>
    \A inv \in AlphaInvocations(TK, drPositionsData, tkStageIds) :
      ~inv.backward => Less(Zero, C30_Denominator(inv))

\* a call nested on a backward prefix formed its quotient
C30_BackwardInvocation ==
  /\ C30_AlphaComputed
  /\ \E inv \in AlphaInvocations(TK, drPositionsData, tkStageIds) : inv.backward


(***************************************************************************)
(* C31: alpha(vec), its base case, its early returns and its recursion     *)
(***************************************************************************)
\* generateFullChain has just called alpha(vec) for an extra stage
C31_AlphaCalled ==
  /\ pc = "drloop"
  /\ outOfTargetSupport = FALSE
  /\ Len(drPositionsData) >= 3

C31_Calls ==
  AlphaCalls(drPositionsData, tkStageIds, 0, Len(drPositionsData) + 1)

C31_Degenerate(p) == p.out \/ p.lt = PInf \/ p.lt = NInf \/ IsNaN(p.lt)

C31_Call(c) ==
  LET n == Len(c.pos)
  IN  /\ n >= 2
      /\ n < c.callerSize
      /\ c.depth <= opt.drMaxNumExtraStages
      /\ Len(c.ids) = n
      /\ n = 2 => AlphaVec(TK, c.pos, c.ids)
                    = AlphaXY(TK, c.pos[1], c.pos[2], c.ids[1], c.ids[2])
      /\ (C31_Degenerate(c.pos[1]) \/ C31_Degenerate(c.pos[n])) =>
           AlphaVec(TK, c.pos, c.ids) = Zero

\* C31: alpha(vec) on two positions returns alpha(x,y) of the first and the
\* last with their stage ids; on any list it returns 0 when the first or the
\* last position is out of support or has a log-target that is infinite or
\* NaN, whatever lies between; each call it makes on itself is on a strictly
\* shorter list of at least two positions, and the calls nest no deeper than
\* the maximum number of extra stages
C31_MultiPositionAlpha ==
  C31_AlphaCalled => \A c \in C31_Calls : C31_Call(c)

\* the call for the last of two extra stages: it nests two deep, and among its
\* calls one on three positions returns right away for its last position
C31_Witness ==
  /\ C31_AlphaCalled
  /\ Len(drPositionsData) = MaxStages + 2
  /\ \E c \in C31_Calls : c.depth = MaxStages
  /\ \E c \in C31_Calls :
       /\ Len(c.pos) = 3
       /\ C31_Degenerate(c.pos[3])
       /\ ~C31_Degenerate(c.pos[1])


(***************************************************************************)
(* C32: the acceptance decision, acceptAlpha                               *)
(***************************************************************************)
\* the step about to be taken calls acceptAlpha
C32_Decision == pc \in {"eval0", "dreval"} /\ outOfTargetSupport = FALSE

\* the argument of that call
C32_Alpha ==
  LET tk == [TK EXCEPT !.pre[stageId + 1] = tmpVecValues]
      candidate == Evaluate(tmpVecValues, outOfTargetSupport)
  IN  IF pc = "eval0"
      THEN AlphaXY(tk, currentPositionData, candidate, 0, 1)
      ELSE AlphaVec(tk, Append(drPositionsData, candidate),
                    Append(tkStageIds, stageId + 1))

\* the decision as the code takes it: no sample is drawn when alpha <= 0 or
\* alpha >= 1, one is drawn otherwise and decides
C32_Step ==
  C32_Decision =>
    /\ LessEq(C32_Alpha, Zero) => accept' = FALSE /\ ~ConsumesUniform(C32_Alpha)
    /\ GreaterEq(C32_Alpha, One) => accept' = TRUE /\ ~ConsumesUniform(C32_Alpha)
    /\ (~LessEq(C32_Alpha, Zero) /\ ~GreaterEq(C32_Alpha, One)) =>
         /\ ConsumesUniform(C32_Alpha)
         /\ \E u \in UniformSamples : accept' = LessEq(u, C32_Alpha)

\* the decision as stated: one sample at every decision, which decides
C32_StepAsStated ==
  C32_Decision =>
    /\ ConsumesUniform(C32_Alpha)
    /\ \E u \in UniformSamples : accept' = LessEq(u, C32_Alpha)
    /\ LessEq(C32_Alpha, Zero) => accept' = FALSE
    /\ GreaterEq(C32_Alpha, One) => accept' = TRUE

C33_Event == pc = "am" /\ AMEnabled /\ PartialChainSize(positionId) > 0

C33_SizeChecks ==
  {"'partialChain.subSequenceSize()' should be >= 2",
   "'partialChain.subSequenceSize()' should be >= 1",
   "'idOfFirstPositionInSubChain' should be >= 1"}

\* positions handed to updateAdaptedCovMatrix up to and including step i
RECURSIVE C33_FoldedSoFar(_)
C33_FoldedSoFar(i) ==
  IF i = 0 THEN 0 ELSE C33_FoldedSoFar(i - 1) + PartialChainSize(i)

C33_Step ==
  C33_Event =>
    /\ positionId = opt.amInitialNonAdaptInterval =>
         /\ Len(PartialChain(workingChain, positionId))
              = opt.amInitialNonAdaptInterval + 1
         /\ Len(PartialChain(workingChain, positionId)) >= 2
         /\ lastChainSize = 0
         /\ lastChainSize' = opt.amInitialNonAdaptInterval + 1
    /\ positionId > opt.amInitialNonAdaptInterval =>
         /\ Len(PartialChain(workingChain, positionId)) >= 1
         /\ IdOfFirstPositionInSubChain(positionId) >= 1
         /\ lastChainSize' = lastChainSize + opt.amAdaptInterval
    /\ lastChainSize' = positionId + 1
    /\ lastChainSize' = C33_FoldedSoFar(positionId)
    /\ fatal' \notin C33_SizeChecks

\* C33: in a run with both adaptation intervals at least 1, the first call of
\* updateAdaptedCovMatrix receives I+1 >= 2 positions and leaves
\* m_lastChainSize = I+1, every later call adds A, so after the adaptation at
\* step i m_lastChainSize is i+1, the number of positions folded so far, and
\* none of the size tests of updateAdaptedCovMatrix fires
C33_LastChainSize == [][C33_Step]_vars /\ [](fatal \notin C33_SizeChecks)

\* an update that folded two positions at once, after the seed
C33_Witness ==
  /\ pc \in {"step", "done"}
  /\ opt.amAdaptInterval = MaxInterval
  /\ lastChainSize = opt.amInitialNonAdaptInterval + 1 + opt.amAdaptInterval


(***************************************************************************)
(* C34: candidates out of the support kept as candidates                   *)
(***************************************************************************)
\* the candidate in hand was drawn out of the support and kept
C34_Kept == opt.putOutOfBoundsInChain /\ outOfTargetSupport = TRUE

C34_Step ==
  /\ (pc \in {"eval0", "dreval"} /\ C34_Kept) =>
       /\ currentCandidateData'.out = TRUE
       /\ currentCandidateData'.lt = NInf
       /\ accept' = FALSE
  /\ (pc = "drgate" /\ C34_Kept) =>
       /\ AlphaXY(TK, currentPositionData, currentCandidateData, 0, 1) = Zero
       /\ pc' = "commit"
       /\ rawChainInfo' = rawChainInfo
  /\ (pc = "drloop" /\ C34_Kept) =>
       /\ AlphaVec(TK, drPositionsData, tkStageIds) = Zero
       /\ accept = FALSE
       /\ (validPreComputingPosition /\ stageId < opt.drMaxNumExtraStages) =>
            pc' = "drdraw" /\ stageId' = stageId + 1
  /\ (pc = "commit" /\ C34_Kept) =>
       /\ currentPositionData' = currentPositionData
       /\ rawChainInfo'.numRejections = rawChainInfo.numRejections + 1

C34_Finite(p) == ~NonFiniteLogTarget(FromRaw(opt.expectsLn, RawTarget(p)))

\* every position written into the chain is in the support, and its
\* log-target is finite if the initial position's is
C34_Chain ==
  \A j \in 1..Len(workingChain) :
    workingChain[j] # Unwritten =>
      /\ InDomain(workingChain[j])
      /\ C34_Finite(opt.initialPosition) => C34_Finite(workingChain[j])

\* C34: with put_out_of_bounds_in_chain true a candidate out of the support
\* kept at any stage carries log-target -inf, has alpha 0 at that stage and is
\* not accepted; at stage 0 it ends the step as a rejection without an extra
\* stage, in an extra stage it lets the stage loop go on to the next stage; so
\* for every option setting every position written into the chain is in the
\* support and has a finite log-target whenever the initial position has
C34_OutOfSupportCandidates == [][C34_Step]_vars /\ []C34_Chain

\* a finished run in which candidates out of the support were kept at stage 0
\* and in an extra stage
C34_Witness ==
  /\ pc = "done"
  /\ opt.putOutOfBoundsInChain
  /\ rawChainInfo.numOutOfTargetSupport >= 1
  /\ rawChainInfo.numOutOfTargetSupportInDR >= 1
  /\ C34_Finite(opt.initialPosition)


(***************************************************************************)
(* C35: an initial position in the support with a non-finite log-target    *)
(***************************************************************************)
C35_InitialLogTarget == FromRaw(opt.expectsLn, RawTarget(opt.initialPosition))

C35_NonFiniteStart ==
  /\ InDomain(opt.initialPosition)
  /\ \/ IsNaN(C35_InitialLogTarget)
     \/ C35_InitialLogTarget = PInf
     \/ C35_InitialLogTarget = NInf

\* the acceptance probability computed by the step about to be taken
C35_Alpha ==
  LET tk == [TK EXCEPT !.pre[stageId + 1] = tmpVecValues]
      candidate == Evaluate(tmpVecValues, outOfTargetSupport)
  IN  IF pc = "eval0"
      THEN AlphaXY(tk, currentPositionData, candidate, 0, 1)
      ELSE AlphaVec(tk, Append(drPositionsData, candidate),
                    Append(tkStageIds, stageId + 1))

C35_Step ==
  C35_NonFiniteStart =>
    /\ (pc \in {"eval0", "dreval"} /\ outOfTargetSupport = FALSE) =>
         C35_Alpha = Zero /\ accept' = FALSE
    /\ pc = "commit" =>
         /\ currentPositionData' = currentPositionData
         /\ workingChain'[positionId + 1] = opt.initialPosition
         /\ rawChainInfo'.numRejections = rawChainInfo.numRejections + 1

C35_State ==
  C35_NonFiniteStart =>
    /\ pc # "fatal"
    /\ accept = FALSE
    /\ \A j \in 1..Len(workingChain) :
         workingChain[j] \in {Unwritten, opt.initialPosition}
    /\ pc = "done" =>
         /\ \A j \in 1..Len(workingChain) : workingChain[j] = opt.initialPosition
         /\ Len(workingChain) = opt.rawChainSize
         /\ rawChainInfo.numRejections = opt.rawChainSize - 1

C36_SeedStep ==
  /\ pc = "am"
  /\ AMEnabled
  /\ positionId = opt.amInitialNonAdaptInterval

C36_SeededAfresh ==
  C36_SeedStep =>
    /\ lastChainSize = 0
    /\ pc' # "fatal"
    /\ lastChainSize' = opt.amInitialNonAdaptInterval + 1

\* the counters at the first step of a run are those of a first run
C36_CountersReset ==
  (pc = "step" /\ positionId = 1) =>
    rawChainInfo = [ResetInfo EXCEPT !.numTargetCalls = 1]

\* C36: generateSequence can be called more than once on one sampler with
\* adaptation enabled: in every run the seed step finds m_lastChainSize = 0
\* and takes the seeding branch of updateAdaptedCovMatrix, so a further run
\* goes like a first run and raises no fatal error, and the counters of
\* m_rawChainInfo are reset at the start of every run
C36_EveryRunSeedsAfresh == [][C36_SeededAfresh]_vars /\ []C36_CountersReset

\* the counters alone: reset at the entry of every run
C36_CountersResetInEveryRun == []C36_CountersReset

\* a further run has reached its seed step with the statistics of the run
\* before
C36_SecondRunSeedStep ==
  /\ C36_SeedStep
  /\ lastChainSize > 0


(***************************************************************************)
(* C37: the counters of m_rawChainInfo after every step                    *)
(***************************************************************************)
\* step positionId - 1 has been completed (0: the initial position is set)
C37_AfterStep == pc \in {"step", "done"}

C37_Steps == positionId - 1

\* C37: after every step i of a run, numOutOfTargetSupport <= numRejections
\* <= i, numOutOfTargetSupportInDR <= numDRs <= K*i, and numTargetCalls <=
\* 1 + i + numDRs
C37_CounterInvariants ==
  C37_AfterStep =>
    /\ rawChainInfo.numOutOfTargetSupport <= rawChainInfo.numRejections
    /\ rawChainInfo.numRejections <= C37_Steps
    /\ rawChainInfo.numOutOfTargetSupportInDR <= rawChainInfo.numDRs
    /\ rawChainInfo.numDRs <= opt.drMaxNumExtraStages * C37_Steps
    /\ rawChainInfo.numTargetCalls <= 1 + C37_Steps + rawChainInfo.numDRs

\* the end of a run in which every step was rejected after all its extra
\* stages and every candidate but one was evaluated: the bounds on
\* numRejections and numDRs are met
C37_Witness ==
  /\ pc = "done"
  /\ opt.rawChainSize = MaxChainSize
  /\ opt.drMaxNumExtraStages = MaxStages
  /\ rawChainInfo.numRejections = C37_Steps
  /\ rawChainInfo.numDRs = opt.drMaxNumExtraStages * C37_Steps
  /\ rawChainInfo.numOutOfTargetSupportInDR = 1
  /\ rawChainInfo.numTargetCalls = C37_Steps + rawChainInfo.numDRs


(***************************************************************************)
(* C38: the running statistics at an adaptation event                      *)
(***************************************************************************)
\* lastChainSize, lastMean and lastAdaptedCovMatrix as handed to
\* updateAdaptedCovMatrix at the position being completed
C38_Last ==
  [fatal |-> "", size |-> lastChainSize,
   mean |-> IF positionId = opt.amInitialNonAdaptInterval
            THEN ZeroVector ELSE lastMean,
   cov |-> IF positionId = opt.amInitialNonAdaptInterval
           THEN ZeroMatrix ELSE lastAdaptedCovMatrix]

\* what updateAdaptedCovMatrix leaves at the position being completed
C38_Updated ==
  UpdateAdaptedCovMatrix(PartialChain(workingChain, positionId),
                         IdOfFirstPositionInSubChain(positionId), C38_Last)

C38_Step ==
  AdaptationEvent =>
    \E am \in {C38_Updated} :
      \E chol \in {CholAttempts(am.cov)} :
        /\ am.fatal = ""
        /\ lastChainSize' = am.size
        /\ lastChainSize' > lastChainSize
        /\ lastMean' = am.mean
        /\ lastAdaptedCovMatrix' = am.cov
        /\ (chol.fatal = "" /\ ~chol.positiveDefinite) =>
             tkCovMatrix' = tkCovMatrix
        /\ (chol.attemptedMatrix # am.cov) =>
             /\ chol.attemptedMatrix = C20_Ridged(am.cov)
             /\ lastAdaptedCovMatrix' # chol.attemptedMatrix

\* C38: at every adaptation event lastMean, lastAdaptedCovMatrix and
\* lastChainSize become what updateAdaptedCovMatrix computes, whatever the
\* Cholesky attempts return, also when both attempts fail and the TK
\* covariance stays as it was; the ridge is added to a copy, so
\* lastAdaptedCovMatrix is never the matrix with amEpsilon * I added
C38_StatisticsAdvanced == [][C38_Step]_vars

\* the state an adaptation event leaves when both Cholesky attempts failed:
\* the statistics count the positions up to the one just completed, the TK
\* has the covariance it started with
C38_Witness ==
  /\ pc \in {"step", "done"} /\ fatal = ""
  /\ lastChainSize = positionId
  /\ lastMean # ZeroVector
  /\ C20_BothFail(lastAdaptedCovMatrix)
  /\ tkCovMatrix = InitialProposalCovMatrix


(***************************************************************************)
(* C39: the writes of the raw chain and of its log values to the output     *)
(* file, with m_rawChainDataOutputFileName configured and both log          *)
(* sequences asked for                                                      *)
(***************************************************************************)
MaxPeriod == 2

\* m_rawChainDataOutputPeriod, when positive
RawChainDataOutputPeriods == 1 .. MaxPeriod

\* the test of the write per period request, after the position id is set
PeriodicWriteDue(id, P) == P > 0 /\ (id + 1) % P = 0

\* m_numPositionsNotSubWritten once position id is set and its write per
\* period request, if due, is made (-1: before position 0 is set)
RECURSIVE NumPositionsNotSubWritten(_, _)
NumPositionsNotSubWritten(id, P) ==
  IF id < 0 THEN 0
  ELSE IF PeriodicWriteDue(id, P) THEN 0
  ELSE NumPositionsNotSubWritten(id - 1, P) + 1

\* the arguments initialPos and numPos of the three subWriteContents calls of
\* the write per period request made after position id is set.  The indices
\* are unsigned int: a negative initialPos stands for that value + 2^32
PeriodicSubWrite(id, P) ==
  [chain |-> [initialPos |-> id + 1 - P, numPos |-> P],
   logLikelihood |-> [initialPos |-> 0 + 1 - P, numPos |-> P],
   logTarget |-> [initialPos |-> 0 + 1 - P, numPos |-> P]]

\* the subWriteContents calls of generateSequence for the remaining positions
\* of a chain of N positions; numPos = 0: nothing is written
RemainingSubWrite(N, P) ==
  LET n == NumPositionsNotSubWritten(N - 1, P)
      w == [initialPos |-> N - n, numPos |-> n]
  IN  [chain |-> w, logLikelihood |-> w, logTarget |-> w]

\* the write w covers index i of its sequence
SubWriteCovers(w, i) ==
  /\ w.initialPos >= 0
  /\ w.initialPos <= i
  /\ i < w.initialPos + w.numPos

WrittenSequences == {"chain", "logLikelihood", "logTarget"}

\* the last position of the chain set so far (-1: none)
C39_LastPositionSet ==
  CASE pc = "start" -> 0 - 1
    [] pc = "am" -> positionId
    [] OTHER -> positionId - 1

\* how many writes of a completed run of N positions cover index i of seq
C39_TimesWritten(seq, i, N, P) ==
  Cardinality({id \in 0 .. N - 1 :
                 /\ PeriodicWriteDue(id, P)
                 /\ SubWriteCovers(PeriodicSubWrite(id, P)[seq], i)})
  + (IF SubWriteCovers(RemainingSubWrite(N, P)[seq], i) THEN 1 ELSE 0)

C39_RunCompleted ==
  pc = "done" /\ fatal = "" /\ positionId = opt.rawChainSize

\* C39: with an output period P > 0 and an output file, every write per
\* period request made after position positionId, (positionId+1) mod P = 0,
\* writes the log-likelihood and log-target values over the index range
\* [positionId+1-P, positionId] of the chain positions it writes, and these
\* writes together with the write of the remaining positions in
\* generateSequence cover every index 0..N-1 of each sequence exactly once
C39_LogValuesWrittenAsChain ==
  \A P \in RawChainDataOutputPeriods :
    /\ \A id \in 0 .. C39_LastPositionSet :
         PeriodicWriteDue(id, P) =>
           \E w \in {PeriodicSubWrite(id, P)} :
             /\ w.chain = [initialPos |-> id + 1 - P, numPos |-> P]
             /\ w.logLikelihood = w.chain
             /\ w.logTarget = w.chain
    /\ C39_RunCompleted =>
         \A seq \in WrittenSequences : \A i \in 0 .. opt.rawChainSize - 1 :
           C39_TimesWritten(seq, i, opt.rawChainSize, P) = 1

\* the chain positions are written as C39 says: each write per period request
\* has the range [positionId+1-P, positionId], and every index 0..N-1 of the
\* chain is covered exactly once
C39_ChainWrittenOnce ==
  \A P \in RawChainDataOutputPeriods :
    /\ \A id \in 0 .. C39_LastPositionSet :
         PeriodicWriteDue(id, P) =>
           PeriodicSubWrite(id, P).chain =
             [initialPos |-> id + 1 - P, numPos |-> P]
    /\ C39_RunCompleted =>
         \A i \in 0 .. opt.rawChainSize - 1 :
           C39_TimesWritten("chain", i, opt.rawChainSize, P) = 1

\* a completed run with a period that does not divide the chain size: a
\* write per period request was made after position 0 and positions remain
\* for generateSequence
C39_RemainingPositions ==
  /\ C39_RunCompleted
  /\ \E P \in RawChainDataOutputPeriods :
       /\ PeriodicWriteDue(P - 1, P)
       /\ P > 1
       /\ RemainingSubWrite(opt.rawChainSize, P).chain.numPos > 0

====
